---- MODULE Spec2Model ----
(***************************************************************************)
(* Verification model of the cxxapi HTTP server core.                      *)
(*                                                                         *)
(*   SpecConn  - one connection's request pipeline                         *)
(*               (client_t::start / client_t::handle_request)              *)
(*   SpecChain - the composed middleware chain                             *)
(*               (c_cxxapi::init_middlewares_chain / _handle_request)      *)
(*   SpecTrie  - insert and find on the route trie (trie_node_t)           *)
(*   SpecMultipart, SpecUpload - the multipart parsers                     *)
(*               (multipart_t::parse_async / parse_from_file_async)        *)
(*   SpecLife  - start / stop / wait of c_cxxapi and c_server              *)
(*                                                                         *)
(* Strings that the code compares character by character are modelled as  *)
(* tuples of one-character strings.                                        *)
(***************************************************************************)
EXTENDS Integers, Sequences, FiniteSets, TLC

VARIABLES
    \* ---- client_t (one connection) ----
    pc,             \* position of the start()/handle_request() coroutine
    m_close,        \* client_t::m_close
    req,            \* http::request_t built in the current iteration
    keep_alive,     \* local keep_alive of handle_request
    response_data,  \* result of c_cxxapi::_handle_request
    catch_tuple,    \* catch_tuple of start()
    wire,           \* everything written to m_socket, in order
    sock_ok,        \* the peer still accepts writes
    send_shut,      \* shutdown_send has been called on m_socket
    iter,           \* number of request headers read so far
    chunks,         \* chunk frames the streaming callback wrote so far
    tmp_files,      \* the upload-XXXX-XXXX files that exist in m_tmp_dir, each
                    \* named by the request it was created for
    raised,         \* exception raised inside handle_request for this request
    \* ---- c_cxxapi: registration and the composed middleware chain ----
    m_middlewares,  \* c_cxxapi::m_middlewares, in registration order
    mw_call,        \* how the last call of add_middleware ended
    m_route_trie,   \* c_cxxapi::m_route_trie: the nodes of the trie, each
                    \* named by the edges that lead to it from the root
    m_cfg,          \* c_cxxapi::m_cfg
    next_chain,     \* next_chain[i]: the std::function captured by wrapper i
                    \* of m_middlewares_chain still holds its target
    w_pc,           \* per worker thread: position inside _handle_request
    w_target,       \* per worker thread: request.uri() of its request
    w_level,        \* per worker thread: wrapper / middleware it is in
    w_next,         \* per worker thread: the `next` argument it was handed
    w_trace,        \* per worker thread: what the current request passed
    w_thrown,       \* per worker thread: exception travelling up the chain
    w_response,     \* per worker thread: response of the current request
    served,         \* number of requests handed to the chain so far
    \* ---- lifecycle: c_cxxapi::start/stop/wait, c_server::start/stop ----
    api_running,    \* c_cxxapi::m_running
    srv_running,    \* c_server::m_running
    m_server,       \* c_cxxapi::m_server: "null" or "set"
    acceptor_open,  \* c_server::m_acceptor.is_open()
    io_stopped,     \* c_server::m_io_ctx has been stopped
    pool,           \* c_server::m_thread_pool: "none", "running", "joined"
    signals,        \* c_cxxapi::m_signals: "none", "armed", "fired", "cancelled"
    wait_mutex,     \* c_cxxapi::m_wait_mutex: 0 when free, else the holder
    cv_waiters,     \* threads blocked in c_cxxapi::m_wait_cv
    st_pc,          \* per caller of stop(): position inside stop()
    wait_pc,        \* per caller of wait(): position inside wait()
    did,            \* how often each start / shutdown action was performed
    stop_calls,     \* number of stop() calls made so far
    \* ---- calls of trie_node_t::insert and trie_node_t::find ----
    t_last,         \* the last call of insert or find and what it returned
    t_calls,        \* number of insert calls made so far
    \* ---- multipart_t::parse_async and its caller ----
    mp_pc,          \* idle, received (a body is there), parsed or
                    \* parsed_from_file
    mp_parts,       \* the parts the client wrote into the body
    mp_closed,      \* the client wrote the closing delimiter
    mp_limits,      \* the in-memory limits handed to parse_async
    mp_body,        \* request.body(), the bytes handed to parse_async
    mp_files,       \* http_ctx_t::m_files, the result of the parser
    mp_threw,       \* what() of the exception the parser left with, or ""
    \* ---- the header fields of one received request ----
    h_pc,           \* idle, received (the header is parsed) or copied
    h_fields,       \* the fields of the parsed header, in the order received
    h_headers,      \* request_t::m_headers
    \* ---- c_server::start and the do_accept coroutines ----
    a_pc,           \* constructed or started
    a_workers,      \* local workers of c_server::start
    a_acceptors,    \* number of do_accept coroutines start spawned
    a_cfg,          \* cfg.m_socket
    a_sockets,      \* what became of each accepted socket, in order
    \* ---- c_redis::c_connection_pool and the callers of acquire ----
    p_running,      \* c_connection_pool::m_running
    p_pool,         \* c_connection_pool::m_pool: m_in_use of each handle
    p_mutex,        \* the caller that holds m_pool_mutex, or 0
    p_pc,           \* per caller: position inside acquire_connection
    p_handle,       \* per caller: its handle (place in m_pool), or 0
    p_attempt,      \* per caller: local attempt of the waiting loop
    \* ---- log_buffer_t and the threads that call it ----
    l_buffer,       \* log_buffer_t::m_buffer: messages, some moved-from
    l_shared,       \* the threads that hold m_mutex shared
    l_count,        \* per thread: local count of get_batch, 0 outside it
    l_batch,        \* per thread: local batch of get_batch
    l_handed,       \* the messages pop and get_batch returned, in order
    l_pushed,       \* number of messages push accepted so far
    l_empty,        \* what the last call of empty() returned
    \* ---- the byte stream of one connection and client_t::m_buffer ----
    b_pc,           \* position of start() over the byte stream
    b_stream,       \* what the client sends: the pieces of its requests
    b_taken,        \* number of pieces read from the socket so far
    b_buffer,       \* client_t::m_buffer: pieces read and not yet consumed
    b_request,      \* the request whose header was parsed last
    b_headers,      \* the piece at which each parsed header began
    b_responses,    \* the responses written, each with its request
    \* ---- file_t objects and the temp files on disk ----
    f_objs,         \* per object: alive or not, m_in_memory, m_temp_path
    f_disk,         \* the temp files present on disk
    f_created,      \* the temp files created so far
    f_removes       \* per temp file, the calls of remove made on it

connVars == <<pc, m_close, req, keep_alive, response_data,
              catch_tuple, wire, sock_ok, send_shut, iter, chunks, raised,
              tmp_files>>

chainVars == <<m_middlewares, mw_call, m_route_trie, m_cfg, next_chain, w_pc,
               w_target, w_level, w_next, w_trace, w_thrown, w_response,
               served>>

\* the server object and its threads
serverVars == <<m_server, acceptor_open, io_stopped, pool, signals>>

\* the threads inside stop() and wait()
syncVars == <<wait_mutex, cv_waiters, st_pc, wait_pc, did, stop_calls>>

lifeVars == <<api_running, srv_running, serverVars, syncVars>>

\* the callers of the trie
trieVars == <<t_last, t_calls>>

\* the multipart parser and its caller
mpVars == <<mp_pc, mp_parts, mp_closed, mp_limits, mp_body, mp_files,
           mp_threw>>

\* the header fields of a request and the map made of them
hdrVars == <<h_pc, h_fields, h_headers>>

\* the accept coroutines of the server
acceptVars == <<a_pc, a_workers, a_acceptors, a_cfg, a_sockets>>

\* the Redis connection pool and its callers
poolVars == <<p_running, p_pool, p_mutex, p_pc, p_handle, p_attempt>>

\* the log buffer and its callers
logVars == <<l_buffer, l_shared, l_count, l_batch, l_handed, l_pushed,
            l_empty>>

\* the byte stream of a connection
streamVars == <<b_pc, b_stream, b_taken, b_buffer, b_request, b_headers,
               b_responses>>

\* the file_t objects of an application and their temp files
fileVars == <<f_objs, f_disk, f_created, f_removes>>

vars == <<connVars, chainVars, lifeVars, trieVars, mpVars, hdrVars, acceptVars, poolVars, logVars, streamVars, fileVars>>

\* what each part of the model leaves alone
notConn == <<chainVars, lifeVars, trieVars, mpVars, hdrVars, acceptVars, poolVars, logVars, streamVars, fileVars>>
notChain == <<connVars, lifeVars, trieVars, mpVars, hdrVars, acceptVars, poolVars, logVars, streamVars, fileVars>>
notLife == <<connVars, chainVars, trieVars, mpVars, hdrVars, acceptVars, poolVars, logVars, streamVars, fileVars>>
notMultipart == <<connVars, chainVars, lifeVars, trieVars, hdrVars, acceptVars, poolVars, logVars, streamVars, fileVars>>
notHeaders == <<connVars, chainVars, lifeVars, trieVars, mpVars, acceptVars, poolVars, logVars, streamVars, fileVars>>
notAccept == <<connVars, chainVars, lifeVars, trieVars, mpVars, hdrVars,
              poolVars, logVars, streamVars, fileVars>>
notPool == <<connVars, chainVars, lifeVars, trieVars, mpVars, hdrVars,
            acceptVars, logVars, streamVars, fileVars>>
notLog == <<connVars, chainVars, lifeVars, trieVars, mpVars, hdrVars,
           acceptVars, poolVars, streamVars, fileVars>>
notStream == <<connVars, chainVars, lifeVars, trieVars, mpVars, hdrVars,
              acceptVars, poolVars, logVars, fileVars>>
notFile == <<connVars, chainVars, lifeVars, trieVars, mpVars, hdrVars,
            acceptVars, poolVars, logVars, streamVars>>

(***************************************************************************)
(* Bounds                                                                  *)
(***************************************************************************)
MaxRequests == 2
MaxChunks == 1
MaxMiddlewares == 2
MaxServed == 3
NumThreads == 2
NumStoppers == 1
NumWaiters == 2
MaxStopCalls == 2
MaxPatternSegments == 2
MaxPathSegments == 2
MaxInserts == 2
MaxParts == 2
MaxUploadParts == 3
MaxFields == 3
MaxWorkers == 20
MaxAccepted == 2
MaxConnections == 2
NumAcquirers == 3
LogCapacity == 2
MaxPushed == 3
MaxBatchSize == 2
NumLogThreads == 2
MaxStreamRequests == 2
MaxChunkSizeDisk == 12
MaxFileObjects == 3
MaxTempPaths == 3

(***************************************************************************)
(* Strings                                                                 *)
(***************************************************************************)
UpperAlpha == <<"A","B","C","D","E","F","G","H","I","J","K","L","M",
                "N","O","P","Q","R","S","T","U","V","W","X","Y","Z">>
LowerAlpha == <<"a","b","c","d","e","f","g","h","i","j","k","l","m",
                "n","o","p","q","r","s","t","u","v","w","x","y","z">>

\* std::tolower on one character
UpperLetters == {UpperAlpha[i] : i \in 1..26}

ToLower(c) ==
    IF c \in UpperLetters
    THEN LowerAlpha[CHOOSE i \in 1..26 : UpperAlpha[i] = c]
    ELSE c

ToLowerStr(s) == [i \in 1..Len(s) |-> ToLower(s[i])]

\* boost::iequals
iequals(a, b) == ToLowerStr(a) = ToLowerStr(b)

s_connection == <<"c","o","n","n","e","c","t","i","o","n">>
s_Connection == <<"C","o","n","n","e","c","t","i","o","n">>
s_keep_alive == <<"k","e","e","p","-","a","l","i","v","e">>
s_Keep_Alive == <<"K","e","e","p","-","A","l","i","v","e">>
s_close      == <<"c","l","o","s","e">>
s_upgrade    == <<"U","p","g","r","a","d","e">>

(***************************************************************************)
(* http::request_t                                                         *)
(***************************************************************************)
\* headers_t is std::map<std::string, std::string, ci_less_t>: two keys are
\* the same entry when neither is ci-less than the other.
ci_same(a, b) == iequals(a, b)

\* headers_t::find
HeaderFind(headers, name) ==
    LET hits == {i \in 1..Len(headers) : ci_same(headers[i].name, name)}
    IN  IF hits = {} THEN <<>> ELSE <<headers[CHOOSE i \in hits : TRUE].value>>

\* headers_t::emplace keeps an existing entry
HeaderEmplace(headers, name, value) ==
    IF \E i \in 1..Len(headers) : ci_same(headers[i].name, name)
    THEN headers
    ELSE Append(headers, [name |-> name, value |-> value])

RECURSIVE HeadersOf(_)
\* the loop of start() that copies the parsed fields into req.headers()
HeadersOf(fields) ==
    IF fields = <<>> THEN <<>>
    ELSE LET front == HeadersOf(SubSeq(fields, 1, Len(fields) - 1))
             f == fields[Len(fields)]
         IN  HeaderEmplace(front, f.name, f.value)

\* request_t::keep_alive
KeepAlive(r) ==
    LET it == HeaderFind(r.headers, s_connection)
    IN  IF it = <<>> THEN TRUE ELSE iequals(it[1], s_keep_alive)

\* header fields a client may send
ConnFields ==
    {<<>>} \cup
    {<<[name |-> s_Connection, value |-> v]>> :
        v \in {s_keep_alive, s_Keep_Alive, s_close, s_upgrade}}

\* the requests a client sends: plain ones, websocket upgrades, and
\* multipart uploads; the Content-Length is acceptable or above
\* max_request_size ("big"), a multipart upload may come without one
Requests ==
    {r \in [fields    : ConnFields,
            ctype     : {"none", "multipart"},
            clen      : {"missing", "ok", "big"},
            websocket : BOOLEAN] :
        /\ r.ctype = "none" => r.clen # "missing"
        /\ r.websocket => (r.ctype = "none" /\ r.clen = "ok")}

NoRequest == [headers |-> <<>>, ctype |-> "none", clen |-> "missing",
              websocket |-> FALSE, parse_path |-> 0]

NoResponse == [m_stream |-> FALSE, m_status |-> 0]

\* response_t values a handler (or the 404/500 defaults) can produce
Responses == [m_stream : BOOLEAN, m_status : {200, 404}]

\* what the composed chain does with a request: a response, or an exception
ChainOutcomes ==
    {[thrown |-> "none", response |-> r] : r \in Responses} \cup
    {[thrown |-> e, response |-> NoResponse] : e \in {"system_error", "other"}}

NoCatch == [flag |-> FALSE, status |-> 0]


(***************************************************************************)
(* client_t::start and client_t::handle_request                            *)
(***************************************************************************)
NoRaise == [kind |-> "none", site |-> "none"]

\* a write of one part of a response; a response is identified by the
\* request number and its kind ("resp", "hr500", "default")
WrittenBytes(kind, status, part, conn, bytes) ==
    Append(wire, [n |-> iter, kind |-> kind, status |-> status,
                  part |-> part, conn |-> conn, bytes |-> bytes])

\* a message serialized by Boost.Beast; its bytes are not spelled out
Written(kind, status, part, conn) ==
    WrittenBytes(kind, status, part, conn, <<>>)

HexDigits == <<"0","1","2","3","4","5","6","7","8","9",
               "A","B","C","D","E","F">>

RECURSIVE HexUpper(_)
\* fmt::format("{:X}", n)
HexUpper(n) ==
    IF n < 16 THEN <<HexDigits[n + 1]>>
    ELSE HexUpper(n \div 16) \o <<HexDigits[(n % 16) + 1]>>

\* http.hxx:201-213  send_chunk_async:
\* fmt::format("{:X}\r\n{}\r\n", str.size(), str)
send_chunk_async(str) ==
    HexUpper(Len(str)) \o <<"\r", "\n">> \o str \o <<"\r", "\n">>

\* the byte 0 that ends a string literal
NulByte == "NUL"

\* the terminator without the byte that ends the literal
FiveByteTerminator == <<"0", "\r", "\n", "\r", "\n">>

\* client.cxx:369  boost::asio::buffer("0\r\n\r\n"): the buffer of a char
\* array covers the whole array, the byte 0 at its end included
ChunkTerminatorBuffer == <<"0", "\r", "\n", "\r", "\n", NulByte>>

\* what a streaming callback hands to send_chunk_async: a short text and
\* one of seventeen bytes
ChunkPayloads ==
    {<<"h", "i">>, [i \in 1..17 |-> "z"]}

\* the catch clauses of start(): client_exception_t keeps its status, every
\* other exception type is mapped to 500
StartCatches(status) ==
    /\ catch_tuple' = [flag |-> TRUE, status |-> status]
    /\ pc' = "error_response"

InitConn ==
    /\ pc = "top"
    /\ m_close = FALSE
    /\ req = NoRequest
    /\ keep_alive = FALSE
    /\ response_data = NoResponse
    /\ catch_tuple = NoCatch
    /\ wire = <<>>
    /\ sock_ok = TRUE
    /\ send_shut = FALSE
    /\ iter = 0
    /\ chunks = 0
    /\ raised = NoRaise
    /\ tmp_files = {}

\* client.cxx:8-17  top of the while loop
LoopTop ==
    /\ pc = "top"
    /\ IF ~srv_running
       THEN pc' = "done"
       ELSE pc' = "read_header"
    /\ catch_tuple' = NoCatch
    /\ UNCHANGED <<m_close, req, keep_alive, response_data,
                   wire, sock_ok, send_shut, iter, chunks, raised>>
    /\ UNCHANGED tmp_files
    /\ UNCHANGED notConn

\* client.cxx:25-103  async_read_header, building req, the multipart checks
ReadHeader ==
    /\ pc = "read_header"
    /\ \/ \* end_of_stream, connection_reset, operation_aborted
          /\ pc' = "done"
          /\ UNCHANGED <<req, catch_tuple, iter, raised, chunks>>
       \/ \* any other read error
          /\ iter < MaxRequests
          /\ iter' = iter + 1
          /\ req' = NoRequest
          /\ raised' = NoRaise
          /\ chunks' = 0
          /\ StartCatches(500)
       \/ \E r \in Requests :
          /\ iter < MaxRequests
          /\ iter' = iter + 1
          /\ raised' = NoRaise
          /\ chunks' = 0
          /\ IF r.clen = "big"
             THEN \* client.cxx:23  hdr_parser.body_limit(max_request_size):
                  \* the header parser ends with error::body_limit when the
                  \* Content-Length is above the limit, which is thrown as
                  \* client_exception_t(..., 500u) at client.cxx:39-40.  No
                  \* request_t is built; req keeps what names the request.
                  /\ req' = [NoRequest EXCEPT !.ctype = r.ctype,
                                              !.clen = r.clen]
                  /\ StartCatches(500)
             ELSE /\ req' = [headers |-> HeadersOf(r.fields),
                             ctype |-> r.ctype, clen |-> r.clen,
                             websocket |-> r.websocket, parse_path |-> 0]
                  /\ IF r.ctype = "multipart"
                     THEN IF r.clen = "missing" \/ r.clen = "big"
                          THEN StartCatches(400)
                          ELSE /\ pc' = "stream_request"
                               /\ UNCHANGED catch_tuple
                     ELSE pc' = "read_body" /\ UNCHANGED catch_tuple
    /\ UNCHANGED <<m_close, keep_alive, response_data, wire,
                   sock_ok, send_shut>>
    /\ UNCHANGED tmp_files
    /\ UNCHANGED notConn

\* client.cxx:87-101 with utils.hxx:28-80  the body goes to the temp file
\* upload-XXXX-XXXX, which file.open(..., write_only | create) creates
StreamRequest ==
    /\ pc = "stream_request"
    /\ \/ \* the whole body is written; req.parse_path() = tmp_file
          /\ tmp_files' = tmp_files \cup {iter}
          /\ req' = [req EXCEPT !.parse_path = iter]
          /\ pc' = "dispatch"
          /\ UNCHANGED catch_tuple
       \/ \* "Can't open temp file": nothing was created
          /\ StartCatches(500)
          /\ UNCHANGED <<tmp_files, req>>
       \/ \* "Incomplete write to file", "Connection closed unexpectedly",
          \* or a failed read: the file exists, parse_path stays empty
          /\ tmp_files' = tmp_files \cup {iter}
          /\ StartCatches(500)
          /\ UNCHANGED req
    /\ UNCHANGED <<m_close, keep_alive, response_data,
                   wire, sock_ok, send_shut, iter, chunks, raised>>
    /\ UNCHANGED notConn

\* client.cxx:105-128  async_read of the body
ReadBody ==
    /\ pc = "read_body"
    /\ \/ pc' = "dispatch" /\ UNCHANGED catch_tuple
       \/ pc' = "done" /\ UNCHANGED catch_tuple
       \/ StartCatches(500)
    /\ UNCHANGED <<m_close, req, keep_alive, response_data,
                   wire, sock_ok, send_shut, iter, chunks, raised>>
    /\ UNCHANGED tmp_files
    /\ UNCHANGED notConn

\* client.cxx:130-150 and 316-322  endpoint lookup, websocket break, entry
\* of handle_request
Dispatch ==
    /\ pc = "dispatch"
    /\ \/ \* remote_endpoint() throws system_error
          /\ StartCatches(500)
          /\ UNCHANGED keep_alive
       \/ /\ req.websocket
          /\ pc' = "done"
          /\ UNCHANGED <<keep_alive, catch_tuple>>
       \/ /\ ~req.websocket
          /\ keep_alive' = KeepAlive(req)
          /\ pc' = "chain"
          /\ UNCHANGED catch_tuple
    /\ UNCHANGED <<m_close, req, response_data, wire, sock_ok,
                   send_shut, iter, chunks, raised>>
    /\ UNCHANGED tmp_files
    /\ UNCHANGED notConn

\* cxxapi.cxx:129-180  _handle_request: every exception of the chain is
\* caught there and replaced by a buffered 500 response
HandleRequestOuter(outcome) ==
    IF outcome.thrown = "none"
    THEN outcome.response
    ELSE [m_stream |-> FALSE, m_status |-> 500]

\* what the composed chain meets on its way: whether a middleware calls
\* next down to the core handler, whether the trie has a route, whether the
\* Content-Type carries a boundary, whether parse_from_file_async throws
ChainRuns ==
    [reaches_core : BOOLEAN, route_found : BOOLEAN,
     boundary : BOOLEAN, parse_throws : BOOLEAN]

\* http_ctx.hxx:79-113  init_parsing: with a boundary and a parse_path the
\* file is parsed, and boost::filesystem::remove(parse_path) follows the
\* co_await, so it runs only when parse_from_file_async returned
init_parsing(parse_path, run, files) ==
    IF run.boundary /\ parse_path # 0 /\ ~run.parse_throws
    THEN files \ {parse_path}
    ELSE files

\* cxxapi.cxx:190-240  the core handler: http_ctx_t::create, and with it
\* init_parsing, is called only after a route was found; a middleware that
\* answers by itself never calls the core handler
core(parse_path, run, files) ==
    IF run.reaches_core /\ run.route_found
    THEN init_parsing(parse_path, run, files)
    ELSE files

\* client.cxx:322-356 and 381-412  the chain runs, the response is prepared
Chain ==
    /\ pc = "chain"
    /\ \E outcome \in ChainOutcomes :
          /\ response_data' = HandleRequestOuter(outcome)
          /\ raised' = IF outcome.thrown = "none" THEN raised
                       ELSE [kind |-> outcome.thrown, site |-> "chain"]
          /\ pc' = IF response_data'.m_stream THEN "write_header"
                   ELSE "write_msg"
    /\ \E run \in ChainRuns :
          tmp_files' = core(req.parse_path, run, tmp_files)
    /\ m_close' = IF keep_alive THEN m_close ELSE TRUE
    /\ UNCHANGED <<req, keep_alive, catch_tuple, wire, sock_ok,
                   send_shut, iter, chunks>>
    /\ UNCHANGED notConn

ConnHeader == IF keep_alive THEN "keep-alive" ELSE "close"

\* the catch clause of handle_request: only boost::system::system_error
HrCatches(site) ==
    /\ raised' = [kind |-> "system_error", site |-> site]
    /\ pc' = "hr_error"

\* client.cxx:358-362  async_write_header of the streaming prelude
WriteHeader ==
    /\ pc = "write_header"
    /\ \/ /\ sock_ok
          /\ wire' = Written("resp", response_data.m_status, "head", ConnHeader)
          /\ pc' = "callback"
          /\ UNCHANGED <<sock_ok, raised>>
       \/ /\ sock_ok' = FALSE
          /\ HrCatches("header")
          /\ UNCHANGED wire
    /\ UNCHANGED <<m_close, req, keep_alive, response_data,
                   catch_tuple, send_shut, iter, chunks>>
    /\ UNCHANGED tmp_files
    /\ UNCHANGED notConn

\* client.cxx:366  response_data.m_callback(m_socket), one step per frame
Callback ==
    /\ pc = "callback"
    /\ \/ \* send_chunk_async writes one frame
          /\ sock_ok
          /\ chunks < MaxChunks
          /\ \E str \in ChunkPayloads :
                wire' = WrittenBytes("resp", response_data.m_status, "chunk",
                                     ConnHeader, send_chunk_async(str))
          /\ chunks' = chunks + 1
          /\ UNCHANGED <<pc, sock_ok, raised, catch_tuple>>
       \/ \* the callback returns
          /\ pc' = "write_term"
          /\ UNCHANGED <<wire, chunks, sock_ok, raised, catch_tuple>>
       \/ \* a frame write fails
          /\ sock_ok' = FALSE
          /\ HrCatches("callback")
          /\ UNCHANGED <<wire, chunks, catch_tuple>>
       \/ \* the callback throws system_error of its own
          /\ HrCatches("callback")
          /\ UNCHANGED <<wire, chunks, sock_ok, catch_tuple>>
       \/ \* the callback throws anything else (response.hxx:273), which
          \* leaves handle_request and reaches the catch clauses of start()
          /\ raised' = [kind |-> "other", site |-> "callback"]
          /\ StartCatches(500)
          /\ UNCHANGED <<wire, chunks, sock_ok>>
    /\ UNCHANGED <<m_close, req, keep_alive, response_data,
                   send_shut, iter>>
    /\ UNCHANGED tmp_files
    /\ UNCHANGED notConn

\* what start() does when handle_request has returned: client.cxx:148-149
AfterHandleRequest(close) == IF close THEN "done" ELSE "top"

\* client.cxx:369-378  the chunk terminator, shutdown, return
WriteTerm ==
    /\ pc = "write_term"
    /\ \/ /\ sock_ok
          /\ wire' = WrittenBytes("resp", response_data.m_status, "term",
                               ConnHeader, ChunkTerminatorBuffer)
          /\ send_shut' = m_close
          /\ pc' = AfterHandleRequest(m_close)
          /\ UNCHANGED <<sock_ok, raised>>
       \/ /\ sock_ok' = FALSE
          /\ HrCatches("term")
          /\ UNCHANGED <<wire, send_shut>>
    /\ UNCHANGED <<m_close, req, keep_alive, response_data,
                   catch_tuple, iter, chunks>>
    /\ UNCHANGED tmp_files
    /\ UNCHANGED notConn

\* client.cxx:412-420  the buffered response as one message
WriteMsg ==
    /\ pc = "write_msg"
    /\ \/ /\ sock_ok
          /\ wire' = Written("resp", response_data.m_status, "msg", ConnHeader)
          /\ send_shut' = m_close
          /\ pc' = AfterHandleRequest(m_close)
          /\ UNCHANGED <<sock_ok, raised>>
       \/ /\ sock_ok' = FALSE
          /\ HrCatches("body")
          /\ UNCHANGED <<wire, send_shut>>
    /\ UNCHANGED <<m_close, req, keep_alive, response_data,
                   catch_tuple, iter, chunks>>
    /\ UNCHANGED tmp_files
    /\ UNCHANGED notConn

\* client.cxx:442-474  the 500 response of handle_request
HrError ==
    /\ pc = "hr_error"
    /\ IF sock_ok
       THEN /\ wire' = Written("hr500", 500, "msg", "none")
            /\ m_close' = TRUE
            /\ pc' = AfterHandleRequest(TRUE)
            /\ UNCHANGED catch_tuple
       ELSE \* the write throws outside the try block of handle_request
            /\ StartCatches(500)
            /\ UNCHANGED <<wire, m_close>>
    /\ UNCHANGED <<req, keep_alive, response_data, sock_ok,
                   send_shut, iter, chunks, raised>>
    /\ UNCHANGED tmp_files
    /\ UNCHANGED notConn

\* client.cxx:250-304  the switch on the caught status
DefaultStatus(status) == IF status = 400 THEN 400 ELSE 500

\* client.cxx:244-311  the default error response of start()
ErrorResponse ==
    /\ pc = "error_response"
    /\ IF sock_ok
       THEN /\ wire' = Written("default", DefaultStatus(catch_tuple.status),
                               "msg", "none")
            /\ pc' = "top"
       ELSE \* the write throws out of the coroutine
            /\ pc' = "done"
            /\ UNCHANGED wire
    /\ UNCHANGED <<m_close, req, keep_alive, response_data,
                   catch_tuple, sock_ok, send_shut, iter, chunks, raised>>
    /\ UNCHANGED tmp_files
    /\ UNCHANGED notConn

\* server.cxx:154  c_server::stop stores false while the connection lives
ServerStops ==
    /\ srv_running
    /\ pc # "done"
    /\ srv_running' = FALSE
    /\ UNCHANGED <<pc, m_close, req, keep_alive, response_data, catch_tuple,
                   wire, sock_ok, send_shut, iter, chunks, raised, tmp_files>>
    /\ UNCHANGED <<chainVars, api_running, serverVars, syncVars, trieVars,
                   mpVars, hdrVars, acceptVars, poolVars, logVars, streamVars, fileVars>>

NextConn ==
    \/ LoopTop
    \/ ReadHeader
    \/ StreamRequest
    \/ ReadBody
    \/ Dispatch
    \/ Chain
    \/ WriteHeader
    \/ Callback
    \/ WriteTerm
    \/ WriteMsg
    \/ HrError
    \/ ErrorResponse
    \/ ServerStops


(***************************************************************************)
(* route::internal::trie_node_t                                            *)
(***************************************************************************)
\* normalize_path: the empty path is the root, one trailing '/' is dropped
NormalizePath(path) ==
    IF path = <<>> THEN <<"/">>
    ELSE IF Len(path) > 1 /\ path[Len(path)] = "/"
         THEN SubSeq(path, 1, Len(path) - 1)
         ELSE path

\* std::string::find('/', start): the first position >= start holding '/',
\* or 0 for npos (positions counted from 1)
FindSlash(path, start) ==
    LET hits == {i \in start..Len(path) : path[i] = "/"}
    IN  IF hits = {} THEN 0 ELSE CHOOSE i \in hits : \A j \in hits : i <= j

RECURSIVE SplitFrom(_, _)
\* the loop of split_path and the tail after the last '/'
SplitFrom(path, start) ==
    LET end == FindSlash(path, start)
    IN  IF end = 0
        THEN IF start <= Len(path)
             THEN <<SubSeq(path, start, Len(path))>>
             ELSE <<>>
        ELSE <<SubSeq(path, start, end - 1)>> \o SplitFrom(path, end + 1)

\* split_path: the first character is skipped, "/" has no segments
split_path(path) == IF path = <<"/">> THEN <<>> ELSE SplitFrom(path, 2)

is_dynamic_segment(segment) ==
    Len(segment) >= 2 /\ segment[1] = "{" /\ segment[Len(segment)] = "}"

\* called on non-empty segments only
is_broken_segment(segment) ==
    \/ segment[1] = "{" /\ segment[Len(segment)] # "}"
    \/ segment[1] # "{" /\ segment[Len(segment)] = "}"

extract_param_name(segment) ==
    IF Len(segment) > 2 THEN SubSeq(segment, 2, Len(segment) - 1) ELSE <<>>

\* the edge from a node to its m_dynamic_child; a literal segment is the
\* edge to the child m_child[segment]
DynEdge == <<"m_dynamic_child">>

\* a node as its constructor leaves it
NewNode == [m_param |-> <<>>, m_values |-> <<>>]

\* a trie that holds only its root
EmptyTrie == (<<>> :> NewNode)

RECURSIVE InsertWalk(_, _, _)
\* internal.cxx:17-46  the loop of insert over the segments: the nodes it
\* created stay in the trie when it throws
InsertWalk(trie, node, segments) ==
    IF segments = <<>>
    THEN [trie |-> trie, node |-> node, threw |-> FALSE]
    ELSE LET segment == Head(segments)
             threw == [trie |-> trie, node |-> node, threw |-> TRUE]
         IN  IF segment = <<>> THEN threw
             ELSE IF is_broken_segment(segment) THEN threw
             ELSE IF is_dynamic_segment(segment)
             THEN LET param_name == extract_param_name(segment)
                      child == Append(node, DynEdge)
                  IN  IF param_name = <<>> THEN threw
                      ELSE IF child \notin DOMAIN trie
                      THEN InsertWalk(
                              [(trie @@ (child :> NewNode))
                                  EXCEPT ![node].m_param = param_name],
                              child, Tail(segments))
                      ELSE InsertWalk(trie, child, Tail(segments))
             ELSE LET child == Append(node, segment)
                  IN  IF child \notin DOMAIN trie
                      THEN InsertWalk(trie @@ (child :> NewNode), child,
                                      Tail(segments))
                      ELSE InsertWalk(trie, child, Tail(segments))

\* an insert that stored the handler with m_values[method] = handler and so
\* replaced a handler registered before
InsertReplacing(trie, method, path, handler) ==
    LET walk == InsertWalk(trie, <<>>, split_path(NormalizePath(path)))
    IN  IF walk.threw
        THEN [trie |-> walk.trie, threw |-> TRUE]
        ELSE [trie |-> [walk.trie EXCEPT ![walk.node].m_values =
                            [m \in DOMAIN @ \cup {method} |->
                                IF m = method THEN handler ELSE @[m]]],
              threw |-> FALSE]

\* internal.cxx:5-66  trie_node_t::insert: the trie afterwards, and whether
\* the call threw base_exception_t instead of returning true
Insert(trie, method, path, handler) ==
    LET walk == InsertWalk(trie, <<>>, split_path(NormalizePath(path)))
    IN  IF walk.threw
        THEN [trie |-> walk.trie, threw |-> TRUE]
        ELSE IF method \in DOMAIN walk.trie[walk.node].m_values
        THEN [trie |-> walk.trie, threw |-> TRUE]
        ELSE [trie |-> [walk.trie EXCEPT ![walk.node].m_values =
                            @ @@ (method :> handler)],
              threw |-> FALSE]

\* an emplace that replaced the entry of a name already bound
ParamsOverwrite(params, name, value) ==
    [n \in DOMAIN params \cup {name} |->
        IF n = name THEN value ELSE params[n]]

\* params_t::emplace keeps an existing entry
ParamsEmplace(params, name, value) ==
    IF name \in DOMAIN params THEN params ELSE params @@ (name :> value)

\* a handler is named by the method and the pattern it is registered for
Handler(method, pattern) == [method |-> method, pattern |-> pattern]

NoHandler == Handler("", <<>>)

NoMatch == [result |-> "nullopt", handler |-> NoHandler, params |-> <<>>]

RECURSIVE FindWalkLiteralOnly(_, _, _, _)
\* a walk that never takes the dynamic child
FindWalkLiteralOnly(trie, node, segments, params) ==
    IF segments = <<>>
    THEN [result |-> "walked", node |-> node, params |-> params]
    ELSE IF Head(segments) = <<>>
    THEN [result |-> "throws", node |-> node, params |-> params]
    ELSE IF Append(node, Head(segments)) \in DOMAIN trie
    THEN FindWalkLiteralOnly(trie, Append(node, Head(segments)),
                             Tail(segments), params)
    ELSE [result |-> "nullopt", node |-> node, params |-> params]

RECURSIVE FindWalk(_, _, _, _)
\* internal.cxx:81-97  the loop of find: a literal child is preferred, the
\* dynamic child is taken when there is none
FindWalk(trie, node, segments, params) ==
    IF segments = <<>>
    THEN [result |-> "walked", node |-> node, params |-> params]
    ELSE LET segment == Head(segments)
         IN  IF segment = <<>>
             THEN [result |-> "throws", node |-> node, params |-> params]
             ELSE IF Append(node, segment) \in DOMAIN trie
             THEN FindWalk(trie, Append(node, segment), Tail(segments),
                           params)
             ELSE IF Append(node, DynEdge) \in DOMAIN trie
             THEN FindWalk(trie, Append(node, DynEdge), Tail(segments),
                           ParamsEmplace(params, trie[node].m_param, segment))
             ELSE [result |-> "nullopt", node |-> node, params |-> params]

\* internal.cxx:69-114  trie_node_t::find: (handler, params), std::nullopt,
\* or base_exception_t for an empty segment
Find(trie, method, path) ==
    LET walk == FindWalk(trie, <<>>, split_path(NormalizePath(path)), <<>>)
    IN  IF walk.result = "throws"
        THEN [result |-> "throws", handler |-> NoHandler, params |-> <<>>]
        ELSE IF walk.result = "nullopt" THEN NoMatch
        ELSE IF method \in DOMAIN trie[walk.node].m_values
        THEN [result |-> "found",
              handler |-> trie[walk.node].m_values[method],
              params |-> walk.params]
        ELSE NoMatch


(***************************************************************************)
(* c_cxxapi: add_middleware, add_method, init_middlewares_chain and the    *)
(* composed chain as the worker threads run it                             *)
(***************************************************************************)
Threads == 1..NumThreads

\* user middlewares: one that awaits next(request) and one that answers
\* itself (test_middleware.cxx: mock_middleware, terminating_middleware)
Middlewares(id) == {[id |-> id, calls_next |-> c] : c \in BOOLEAN}

\* the routes the application registers (all for GET): /p and /u/{i}
RouteKeys == {<<"/", "p">>, <<"/", "u", "/", "{", "i", "}">>}

\* the request targets: /p, /u/a and /u//a
Targets == {<<"/", "p">>, <<"/", "u", "/", "a">>,
            <<"/", "u", "/", "/", "a">>}

Configs == [m_response_class : {"plain", "json"}]

InitChain ==
    /\ m_middlewares = <<>>
    /\ mw_call = "none"
    /\ m_route_trie = EmptyTrie
    /\ m_cfg = [m_response_class |-> "plain"]
    /\ next_chain = <<>>
    /\ w_pc = [t \in Threads |-> "idle"]
    /\ w_target = [t \in Threads |-> <<>>]
    /\ w_level = [t \in Threads |-> 0]
    /\ w_next = [t \in Threads |-> FALSE]
    /\ w_trace = [t \in Threads |-> <<>>]
    /\ w_thrown = [t \in Threads |-> FALSE]
    /\ w_response = [t \in Threads |-> 0]
    /\ served = 0

\* add_middleware without the test of m_running
add_middleware_unguarded(middlewares, running, mw) ==
    [threw |-> FALSE, list |-> Append(middlewares, mw)]

\* cxxapi.hxx:201-206  add_middleware: throws base_exception_t when
\* m_running is set, appends to m_middlewares otherwise
add_middleware(middlewares, running, mw) ==
    IF running
    THEN [threw |-> TRUE, list |-> middlewares]
    ELSE [threw |-> FALSE, list |-> Append(middlewares, mw)]

\* a call of add_middleware by the application
AddMiddleware ==
    /\ \E mw \in Middlewares(Len(m_middlewares) + 1) :
          LET call == add_middleware(m_middlewares, api_running, mw)
          IN  /\ Len(call.list) <= MaxMiddlewares
              /\ m_middlewares' = call.list
              /\ mw_call' = IF call.threw THEN "threw" ELSE "added"
    /\ UNCHANGED <<m_route_trie, m_cfg, next_chain, w_pc, w_level,
                   w_next, w_trace, w_thrown, w_response, served, w_target>>
    /\ UNCHANGED notChain

\* cxxapi.hxx:179-195  add_method: no check of m_running
AddMethod ==
    /\ \E key \in RouteKeys :
          \* an exception of insert is caught and logged (cxxapi.hxx:190)
          m_route_trie' =
             Insert(m_route_trie, "GET", key, Handler("GET", key)).trie
    /\ UNCHANGED <<m_middlewares, m_cfg, next_chain, w_pc, w_level,
                   w_next, w_trace, w_thrown, w_response, served, w_target,
                   mw_call>>
    /\ UNCHANGED notChain

\* cxxapi.cxx:245-256  one wrapper per middleware, each holding the chain
\* built so far in its captured next_chain
ComposedChain(middlewares) == [i \in 1..Len(middlewares) |-> TRUE]

\* Bump(h, what): one more `what` has been performed
Bump(h, what) == [h EXCEPT ![what] = @ + 1]

\* cxxapi.cxx:4-63 with server.cxx:4-148  start: the configuration is
\* stored, the chain is composed and m_running becomes true; then the server
\* is constructed (bind and listen may throw), the signal set is armed and
\* c_server::start spawns the accept coroutines and the worker pool
ApiStart ==
    /\ ~api_running
    /\ did.start = 0 /\ did.start_failed = 0    \* start() is called once
    /\ \E cfg \in Configs : m_cfg' = cfg
    /\ next_chain' = ComposedChain(m_middlewares)
    /\ api_running' = TRUE
    /\ \/ \* the constructor of c_server throws
          /\ did' = Bump(did, "start_failed")
          /\ UNCHANGED <<srv_running, serverVars>>
       \/ /\ m_server' = "set"
          /\ signals' = "armed"
          /\ srv_running' = TRUE
          /\ acceptor_open' = TRUE
          /\ io_stopped' = FALSE
          /\ pool' = "running"
          /\ did' = Bump(did, "start")
    /\ UNCHANGED <<m_middlewares, m_route_trie, w_pc, w_level, w_next,
                   w_trace, w_thrown, w_response, served, w_target, mw_call>>
    /\ UNCHANGED <<wait_mutex, cv_waiters, st_pc, wait_pc, stop_calls>>
    /\ UNCHANGED <<connVars, trieVars, mpVars, hdrVars, acceptVars, poolVars, logVars, streamVars, fileVars>>

\* cxxapi.cxx:129-131  a worker thread calls m_middlewares_chain(request)
BeginRequest(t) ==
    /\ pool = "running"
    /\ ~io_stopped
    /\ w_pc[t] \in {"idle", "finished"}
    /\ served < MaxServed
    /\ served' = served + 1
    /\ \E target \in Targets : w_target' = [w_target EXCEPT ![t] = target]
    /\ w_trace' = [w_trace EXCEPT ![t] = <<>>]
    /\ w_thrown' = [w_thrown EXCEPT ![t] = FALSE]
    /\ w_response' = [w_response EXCEPT ![t] = 0]
    /\ w_next' = [w_next EXCEPT ![t] = FALSE]
    /\ IF next_chain = <<>>
       THEN /\ w_pc' = [w_pc EXCEPT ![t] = "core"]
            /\ w_level' = [w_level EXCEPT ![t] = 0]
       ELSE /\ w_pc' = [w_pc EXCEPT ![t] = "wrapper"]
            /\ w_level' = [w_level EXCEPT ![t] = 1]
    /\ UNCHANGED <<m_middlewares, mw_call, m_route_trie, m_cfg, next_chain>>
    /\ UNCHANGED notChain

\* The state of a std::function after std::move(next_chain) built the `next`
\* argument from it is valid but unspecified.  A wrapper of the chain is too
\* large for the small-object buffer, so its holder gives it away and is
\* left empty; the router lambda (one captured pointer) is small: libstdc++
\* and MSVC leave its holder empty, libc++ copies it and leaves the holder
\* as it was.
MovedFrom(i, held) ==
    IF i = Len(m_middlewares) THEN {FALSE, held} ELSE {FALSE}

\* cxxapi.cxx:250-253  wrapper i runs:
\*   middleware->handle(req, std::move(next_chain))
InvokeWrapper(t) ==
    /\ w_pc[t] = "wrapper"
    /\ LET i == w_level[t] IN
          /\ w_next' = [w_next EXCEPT ![t] = next_chain[i]]
          /\ \E left \in MovedFrom(i, next_chain[i]) :
                next_chain' = [next_chain EXCEPT ![i] = left]
          /\ w_trace' = [w_trace EXCEPT ![t] =
                Append(@, [ev |-> "enter", mw |-> m_middlewares[i].id])]
    /\ w_pc' = [w_pc EXCEPT ![t] = "handle"]
    /\ UNCHANGED <<m_middlewares, m_route_trie, m_cfg, w_level,
                   w_thrown, w_response, served, w_target, mw_call>>
    /\ UNCHANGED notChain

\* middleware.hxx:29-33  c_base_middleware::handle: the middleware answers
\* itself or awaits next(request); an empty next throws bad_function_call
MiddlewareHandle(t) ==
    /\ w_pc[t] = "handle"
    /\ LET i == w_level[t]
           mw == m_middlewares[i]
       IN  IF ~mw.calls_next
           THEN /\ w_response' = [w_response EXCEPT ![t] = 204]
                /\ w_pc' = [w_pc EXCEPT ![t] = "return"]
                /\ UNCHANGED <<w_level, w_thrown, w_trace>>
           ELSE IF ~w_next[t]
           THEN /\ w_thrown' = [w_thrown EXCEPT ![t] = TRUE]
                /\ w_trace' = [w_trace EXCEPT ![t] =
                      Append(@, [ev |-> "bad_function_call", mw |-> mw.id])]
                /\ w_pc' = [w_pc EXCEPT ![t] = "return"]
                /\ UNCHANGED <<w_level, w_response>>
           ELSE IF i < Len(next_chain)
           THEN /\ w_level' = [w_level EXCEPT ![t] = i + 1]
                /\ w_pc' = [w_pc EXCEPT ![t] = "wrapper"]
                /\ UNCHANGED <<w_thrown, w_trace, w_response>>
           ELSE /\ w_pc' = [w_pc EXCEPT ![t] = "core"]
                /\ UNCHANGED <<w_level, w_thrown, w_trace, w_response>>
    /\ UNCHANGED <<m_middlewares, m_route_trie, m_cfg, next_chain,
                   w_next, served, w_target, mw_call>>
    /\ UNCHANGED notChain

\* cxxapi.cxx:183-243  the terminal router handler: the route's response,
\* 404 when find returns nullopt; an exception of find leaves the lambda
Core(t) ==
    /\ w_pc[t] = "core"
    /\ LET opt_pair == Find(m_route_trie, "GET", w_target[t])
       IN  IF opt_pair.result = "throws"
              THEN /\ w_thrown' = [w_thrown EXCEPT ![t] = TRUE]
                   /\ w_trace' = [w_trace EXCEPT ![t] =
                         Append(@, [ev |-> "find_throws", mw |-> 0])]
                   /\ UNCHANGED w_response
              ELSE /\ w_response' = [w_response EXCEPT ![t] =
                         IF opt_pair.result = "found" THEN 200 ELSE 404]
                   /\ w_trace' = [w_trace EXCEPT ![t] =
                         Append(@, [ev |-> "core", mw |-> 0])]
                   /\ UNCHANGED w_thrown
    /\ w_pc' = [w_pc EXCEPT ![t] = "return"]
    /\ UNCHANGED <<m_middlewares, m_route_trie, m_cfg, next_chain,
                   w_level, w_next, served, w_target, mw_call>>
    /\ UNCHANGED notChain

RECURSIVE Leaves(_, _)
\* the response passes the middlewares level, level - 1, ..., 1 on its way out
Leaves(middlewares, level) ==
    IF level = 0 THEN <<>>
    ELSE <<[ev |-> "leave", mw |-> middlewares[level].id]>>
            \o Leaves(middlewares, level - 1)

\* cxxapi.cxx:129-180  the response (or the exception, replaced by 500)
\* arrives back in _handle_request
Return(t) ==
    /\ w_pc[t] = "return"
    /\ w_response' = [w_response EXCEPT ![t] =
          HandleRequestOuter(
              [thrown |-> IF w_thrown[t] THEN "other" ELSE "none",
               response |-> [m_stream |-> FALSE, m_status |-> @]]).m_status]
    /\ w_trace' = [w_trace EXCEPT ![t] =
          IF w_thrown[t] THEN @ ELSE @ \o Leaves(m_middlewares, w_level[t])]
    /\ w_pc' = [w_pc EXCEPT ![t] = "finished"]
    /\ UNCHANGED <<m_middlewares, m_route_trie, m_cfg, next_chain,
                   w_level, w_next, w_thrown, served, w_target, mw_call>>
    /\ UNCHANGED notChain

NextChain ==
    \/ AddMiddleware
    \/ AddMethod
    \/ ApiStart
    \/ \E t \in Threads : BeginRequest(t)
    \/ \E t \in Threads : InvokeWrapper(t)
    \/ \E t \in Threads : MiddlewareHandle(t)
    \/ \E t \in Threads : Core(t)
    \/ \E t \in Threads : Return(t)

(***************************************************************************)
(* Callers of trie_node_t::insert and trie_node_t::find                    *)
(***************************************************************************)
Methods == {"GET", "POST"}

\* the segments a pattern is written with: a literal and two dynamic
\* segments,
WellFormedSegments == {<<"a">>, <<"{", "p", "}">>, <<"{", "q", "}">>}

\* the empty segment, one-sided braces and the dynamic segment without name
MalformedSegments == {<<>>, <<"{">>, <<"p", "}">>, <<"{", "}">>}

PatternSegments == WellFormedSegments \cup MalformedSegments

\* the segments a request path is written with
PathSegments == {<<>>, <<"a">>, <<"b">>}

RECURSIVE JoinPath(_)
\* every segment preceded by '/'
JoinPath(segments) ==
    IF segments = <<>> THEN <<>>
    ELSE <<"/">> \o Head(segments) \o JoinPath(Tail(segments))

SegmentLists(S, max) == UNION {[1..n -> S] : n \in 0..max}

\* the patterns handed to insert: at most one of their segments has a brace
\* too few or no name
Patterns ==
    {JoinPath(segments) :
        segments \in {l \in SegmentLists(PatternSegments, MaxPatternSegments) :
            Cardinality({i \in DOMAIN l :
                            l[i] \in MalformedSegments \ {<<>>}}) <= 1}}

Paths ==
    {JoinPath(segments) :
        segments \in SegmentLists(PathSegments, MaxPathSegments)}

NoCall == [op |-> "none", method |-> "", path |-> <<>>, threw |-> FALSE,
           found |-> NoMatch]

InitTrie ==
    /\ t_last = NoCall
    /\ t_calls = 0

\* a call of insert.  The routes are registered first and looked up
\* afterwards.
InsertCall ==
    /\ t_calls < MaxInserts
    /\ t_last.op # "find"
    /\ \E method \in Methods, pattern \in Patterns :
          LET ins == Insert(m_route_trie, method, pattern,
                            Handler(method, pattern))
          IN  /\ m_route_trie' = ins.trie
              /\ t_last' = [op |-> "insert", method |-> method,
                            path |-> pattern, threw |-> ins.threw,
                            found |-> NoMatch]
    /\ t_calls' = t_calls + 1
    /\ UNCHANGED <<m_middlewares, m_cfg, next_chain, w_pc, w_level, w_next,
                   w_trace, w_thrown, w_response, served, w_target, mw_call>>
    /\ UNCHANGED <<connVars, lifeVars, mpVars, hdrVars, acceptVars, poolVars, logVars, streamVars, fileVars>>

\* a call of find.  find leaves the trie as it is, so the lookups made on one
\* trie are taken one at a time, each from the state the last insert left.
FindCall ==
    /\ t_last.op # "find"
    /\ \E method \in Methods, path \in Paths :
          LET opt_pair == Find(m_route_trie, method, path)
          IN  t_last' = [op |-> "find", method |-> method, path |-> path,
                         threw |-> opt_pair.result = "throws",
                         found |-> opt_pair]
    /\ UNCHANGED t_calls
    /\ UNCHANGED <<connVars, chainVars, lifeVars, mpVars, hdrVars, acceptVars, poolVars, logVars, streamVars, fileVars>>

NextTrie ==
    \/ InsertCall
    \/ FindCall

(***************************************************************************)
(* c_cxxapi::stop, c_cxxapi::wait, c_server::stop                          *)
(***************************************************************************)
\* callers of stop(): user threads 1..NumStoppers, and 0 for the handler of
\* the signal set, which runs on a worker thread of the pool
SignalThread == 0
Stoppers == 0..NumStoppers
Waiters == (NumStoppers + 1)..(NumStoppers + NumWaiters)

NothingDone ==
    [start |-> 0, start_failed |-> 0, store |-> 0, notify |-> 0,
     acceptor_cancel |-> 0, acceptor_close |-> 0, io_stop |-> 0,
     pool_join |-> 0, release |-> 0]

\* a c_cxxapi that has been constructed and not started
InitStopped ==
    /\ api_running = FALSE
    /\ srv_running = FALSE
    /\ m_server = "null"
    /\ acceptor_open = FALSE
    /\ io_stopped = FALSE
    /\ pool = "none"
    /\ signals = "none"
    /\ did = NothingDone

\* a c_cxxapi after a successful start()
InitRunning ==
    /\ api_running = TRUE
    /\ srv_running = TRUE
    /\ m_server = "set"
    /\ acceptor_open = TRUE
    /\ io_stopped = FALSE
    /\ pool = "running"
    /\ signals = "armed"
    /\ did = Bump(NothingDone, "start")

InitSync ==
    /\ wait_mutex = 0
    /\ cv_waiters = {}
    /\ st_pc = [c \in Stoppers |-> "idle"]
    /\ wait_pc = [w \in Waiters |-> "idle"]
    /\ stop_calls = 0

StopAt(c, where) == st_pc' = [st_pc EXCEPT ![c] = where]

\* a user thread calls stop()
CallStop(c) ==
    /\ c # SignalThread
    /\ st_pc[c] = "idle"
    /\ stop_calls < MaxStopCalls
    /\ stop_calls' = stop_calls + 1
    /\ StopAt(c, "check")
    /\ UNCHANGED <<api_running, srv_running, serverVars, wait_mutex,
                   cv_waiters, wait_pc, did>>
    /\ UNCHANGED notLife

\* cxxapi.cxx:55-58  a signal arrives and a worker thread runs the handler,
\* which calls stop()
SignalHandler ==
    /\ signals = "armed"
    /\ pool = "running"
    /\ ~io_stopped
    /\ st_pc[SignalThread] = "idle"
    /\ signals' = "fired"
    /\ StopAt(SignalThread, "check")
    /\ UNCHANGED <<api_running, srv_running, m_server, acceptor_open,
                   io_stopped, pool, wait_mutex, cv_waiters, wait_pc, did,
                   stop_calls>>
    /\ UNCHANGED notLife

\* cxxapi.cxx:66-67  if (!m_running) return;
StopCheck(c) ==
    /\ st_pc[c] = "check"
    /\ IF ~api_running
       THEN StopAt(c, "idle")
       ELSE StopAt(c, "store")
    /\ UNCHANGED <<api_running, srv_running, serverVars, wait_mutex,
                   cv_waiters, wait_pc, did, stop_calls>>
    /\ UNCHANGED notLife

\* cxxapi.cxx:69  m_running.store(false)
StopStore(c) ==
    /\ st_pc[c] = "store"
    /\ api_running' = FALSE
    /\ did' = Bump(did, "store")
    /\ StopAt(c, "lock")
    /\ UNCHANGED <<srv_running, serverVars, wait_mutex, cv_waiters, wait_pc,
                   stop_calls>>
    /\ UNCHANGED notLife

\* std::mutex::lock returns once no other thread holds the mutex
MutexFree(holder) == holder = 0

\* stop() going on without the mutex
StopLockNotTaken(holder) == TRUE

\* cxxapi.cxx:71-73  { std::lock_guard lock(m_wait_mutex); }: stop() gets
\* past this block only when no waiter holds the mutex
StopLockTaken(holder) == MutexFree(holder)

StopLock(c) ==
    /\ st_pc[c] = "lock"
    /\ StopLockTaken(wait_mutex)
    /\ StopAt(c, "notify")
    /\ UNCHANGED <<api_running, srv_running, serverVars, wait_mutex,
                   cv_waiters, wait_pc, did, stop_calls>>
    /\ UNCHANGED notLife

\* cxxapi.cxx:75  m_wait_cv.notify_all()
StopNotify(c) ==
    /\ st_pc[c] = "notify"
    /\ cv_waiters' = {}
    /\ wait_pc' = [w \in Waiters |->
                     IF w \in cv_waiters THEN "relock" ELSE wait_pc[w]]
    /\ did' = Bump(did, "notify")
    /\ StopAt(c, "signals")
    /\ UNCHANGED <<api_running, srv_running, serverVars, wait_mutex,
                   stop_calls>>
    /\ UNCHANGED notLife

\* cxxapi.cxx:77-87  m_signals->cancel
StopSignals(c) ==
    /\ st_pc[c] = "signals"
    /\ signals' = IF signals = "armed" THEN "cancelled" ELSE signals
    /\ StopAt(c, "server")
    /\ UNCHANGED <<api_running, srv_running, m_server, acceptor_open,
                   io_stopped, pool, wait_mutex, cv_waiters, wait_pc, did,
                   stop_calls>>
    /\ UNCHANGED notLife

\* cxxapi.cxx:89-90  if (m_server) m_server->stop();
StopServer(c) ==
    /\ st_pc[c] = "server"
    /\ IF m_server = "set"
       THEN StopAt(c, "srv_check")
       ELSE StopAt(c, "idle")
    /\ UNCHANGED <<api_running, srv_running, serverVars, wait_mutex,
                   cv_waiters, wait_pc, did, stop_calls>>
    /\ UNCHANGED notLife

\* server.cxx:151-152  if (!m_running.load()) return;
SrvCheck(c) ==
    /\ st_pc[c] = "srv_check"
    /\ IF ~srv_running THEN StopAt(c, "release") ELSE StopAt(c, "srv_store")
    /\ UNCHANGED <<api_running, srv_running, serverVars, wait_mutex,
                   cv_waiters, wait_pc, did, stop_calls>>
    /\ UNCHANGED notLife

\* server.cxx:154  m_running.store(false)
SrvStore(c) ==
    /\ st_pc[c] = "srv_store"
    /\ srv_running' = FALSE
    /\ StopAt(c, "acceptor")
    /\ UNCHANGED <<api_running, serverVars, wait_mutex, cv_waiters, wait_pc,
                   did, stop_calls>>
    /\ UNCHANGED notLife

\* server.cxx:157-177  cancel and close the acceptor when it is open
SrvAcceptor(c) ==
    /\ st_pc[c] = "acceptor"
    /\ IF acceptor_open
       THEN /\ acceptor_open' = FALSE
            /\ did' = Bump(Bump(did, "acceptor_cancel"), "acceptor_close")
       ELSE UNCHANGED <<acceptor_open, did>>
    /\ StopAt(c, "io_stop")
    /\ UNCHANGED <<api_running, srv_running, m_server, io_stopped, pool,
                   signals, wait_mutex, cv_waiters, wait_pc, stop_calls>>
    /\ UNCHANGED notLife

\* server.cxx:179  m_io_ctx.stop()
SrvIoStop(c) ==
    /\ st_pc[c] = "io_stop"
    /\ io_stopped' = TRUE
    /\ did' = Bump(did, "io_stop")
    /\ StopAt(c, "pool")
    /\ UNCHANGED <<api_running, srv_running, m_server, acceptor_open, pool,
                   signals, wait_mutex, cv_waiters, wait_pc, stop_calls>>
    /\ UNCHANGED notLife

\* server.cxx:185-190  stop, join and release the worker pool.  The signal
\* handler joins the pool from one of its own threads: the join of the
\* calling thread either fails at once (EDEADLK, ignored) or never returns.
SrvPool(c) ==
    /\ st_pc[c] = "pool"
    /\ IF pool = "running"
       THEN \/ /\ pool' = "joined"
               /\ did' = Bump(did, "pool_join")
               /\ StopAt(c, "release")
            \/ /\ c = SignalThread
               /\ StopAt(c, "stuck")
               /\ UNCHANGED <<pool, did>>
       ELSE /\ StopAt(c, "release")
            /\ UNCHANGED <<pool, did>>
    /\ UNCHANGED <<api_running, srv_running, m_server, acceptor_open,
                   io_stopped, signals, wait_mutex, cv_waiters, wait_pc,
                   stop_calls>>
    /\ UNCHANGED notLife

\* cxxapi.cxx:91  m_server.reset(), the end of stop()
StopRelease(c) ==
    /\ st_pc[c] = "release"
    /\ m_server' = "null"
    /\ did' = Bump(did, "release")
    /\ StopAt(c, "idle")
    /\ UNCHANGED <<api_running, srv_running, acceptor_open, io_stopped, pool,
                   signals, wait_mutex, cv_waiters, wait_pc, stop_calls>>
    /\ UNCHANGED notLife

WaitAt(w, where) == wait_pc' = [wait_pc EXCEPT ![w] = where]

\* a thread calls wait()
CallWait(w) ==
    /\ wait_pc[w] = "idle"
    /\ WaitAt(w, "lock")
    /\ UNCHANGED <<api_running, srv_running, serverVars, wait_mutex,
                   cv_waiters, st_pc, did, stop_calls>>
    /\ UNCHANGED notLife

\* cxxapi.cxx:111  std::unique_lock lock(m_wait_mutex), and the lock taken
\* again when the condition variable wakes the thread
WaitLock(w) ==
    /\ wait_pc[w] \in {"lock", "relock"}
    /\ MutexFree(wait_mutex)
    /\ wait_mutex' = w
    /\ WaitAt(w, "predicate")
    /\ UNCHANGED <<api_running, srv_running, serverVars, cv_waiters, st_pc,
                   did, stop_calls>>
    /\ UNCHANGED notLife

\* cxxapi.cxx:113-116  m_wait_cv.wait(lock, pred): with the lock held the
\* predicate is evaluated; wait() unlocks and returns when it is true
WaitPredicate(w) ==
    /\ wait_pc[w] = "predicate"
    /\ IF ~api_running
       THEN /\ WaitAt(w, "returned")
            /\ wait_mutex' = 0
       ELSE /\ WaitAt(w, "block")
            /\ UNCHANGED wait_mutex
    /\ UNCHANGED <<api_running, srv_running, serverVars, cv_waiters, st_pc,
                   did, stop_calls>>
    /\ UNCHANGED notLife

\* cxxapi.cxx:113  condition_variable::wait(lock): the thread releases the
\* mutex and joins the waiters in one atomic step
WaitBlock(w) ==
    /\ wait_pc[w] = "block"
    /\ wait_mutex' = 0
    /\ cv_waiters' = cv_waiters \cup {w}
    /\ WaitAt(w, "blocked")
    /\ UNCHANGED <<api_running, srv_running, serverVars, st_pc, did,
                   stop_calls>>
    /\ UNCHANGED notLife

\* a condition variable may wake a thread without a notification
SpuriousWakeup(w) ==
    /\ w \in cv_waiters
    /\ cv_waiters' = cv_waiters \ {w}
    /\ WaitAt(w, "relock")
    /\ UNCHANGED <<api_running, srv_running, serverVars, wait_mutex, st_pc,
                   did, stop_calls>>
    /\ UNCHANGED notLife

StopStep(c) ==
    \/ StopCheck(c)
    \/ StopStore(c)
    \/ StopLock(c)
    \/ StopNotify(c)
    \/ StopSignals(c)
    \/ StopServer(c)
    \/ SrvCheck(c)
    \/ SrvStore(c)
    \/ SrvAcceptor(c)
    \/ SrvIoStop(c)
    \/ SrvPool(c)
    \/ StopRelease(c)

WaitStep(w) ==
    \/ WaitLock(w)
    \/ WaitPredicate(w)
    \/ WaitBlock(w)

NextLife ==
    \/ ApiStart
    \/ SignalHandler
    \/ \E c \in Stoppers : CallStop(c)
    \/ \E c \in Stoppers : StopCheck(c)
    \/ \E c \in Stoppers : StopStore(c)
    \/ \E c \in Stoppers : StopLock(c)
    \/ \E c \in Stoppers : StopNotify(c)
    \/ \E c \in Stoppers : StopSignals(c)
    \/ \E c \in Stoppers : StopServer(c)
    \/ \E c \in Stoppers : SrvCheck(c)
    \/ \E c \in Stoppers : SrvStore(c)
    \/ \E c \in Stoppers : SrvAcceptor(c)
    \/ \E c \in Stoppers : SrvIoStop(c)
    \/ \E c \in Stoppers : SrvPool(c)
    \/ \E c \in Stoppers : StopRelease(c)
    \/ \E w \in Waiters : CallWait(w)
    \/ \E w \in Waiters : WaitLock(w)
    \/ \E w \in Waiters : WaitPredicate(w)
    \/ \E w \in Waiters : WaitBlock(w)
    \/ \E w \in Waiters : SpuriousWakeup(w)

(***************************************************************************)
(* multipart_t::parse_async, the in-memory multipart parser                *)
(***************************************************************************)
s_crlf == <<"\r","\n">>
s_blank_line == <<"\r","\n","\r","\n">>
s_dashes == <<"-","-">>
s_quote == <<"\"">>
s_colon == <<":">>
s_name_eq == <<"n","a","m","e","=","\"">>
s_filename_eq == <<"f","i","l","e","n","a","m","e","=","\"">>
s_content_disposition ==
    <<"c","o","n","t","e","n","t","-","d","i","s","p","o","s","i","t","i",
      "o","n">>
s_content_type == <<"c","o","n","t","e","n","t","-","t","y","p","e">>

RECURSIVE StrFind(_, _, _)
\* std::string_view::find(pat, from): the first position at or after `from`
\* where pat starts, 0 (npos) when there is none.  Positions count from 1.
StrFind(str, pat, from) ==
    IF from + Len(pat) - 1 > Len(str) THEN 0
    ELSE IF str[from] = pat[1] /\ SubSeq(str, from, from + Len(pat) - 1) = pat
         THEN from
         ELSE StrFind(str, pat, from + 1)

\* body.compare(pos, 2u, pat) == 0u
CompareAt(str, pos, pat) ==
    SubSeq(str, pos, pos + Len(pat) - 1) = pat

\* boost::ifind_first(line, pat), as a condition
ifind_first(line, pat) == StrFind(ToLowerStr(line), ToLowerStr(pat), 1) # 0

RECURSIVE SplitLinesFrom(_, _, _)
SplitLinesFrom(str, delimiter, start) ==
    LET end == StrFind(str, delimiter, start)
    IN  IF end = 0 THEN <<SubSeq(str, start, Len(str))>>
        ELSE <<SubSeq(str, start, end - 1)>>
                \o SplitLinesFrom(str, delimiter, end + Len(delimiter))

\* multipart.hxx:617-637
_split(str, delimiter) ==
    IF str = <<>> THEN <<>> ELSE SplitLinesFrom(str, delimiter, 1)

\* multipart.hxx:647-664
_extract_between(str, start, end) ==
    LET first == StrFind(str, start, 1)
    IN  IF first = 0 THEN <<>>
        ELSE LET from == first + Len(start)
                 last == StrFind(str, end, from)
             IN  IF last = 0 THEN <<>> ELSE SubSeq(str, from, last - 1)

\* line.substr(line.find(":") + 2u), multipart.hxx:82
AfterColon(line) ==
    LET colon == StrFind(line, s_colon, 1)
    IN  SubSeq(line, (IF colon = 0 THEN 1 ELSE colon + 1) + 1, Len(line))

NoFields == [name |-> <<>>, filename |-> <<>>, ctype |-> <<>>]

RECURSIVE ReadHeaderLines(_, _, _)
\* multipart.hxx:75-83  the loop over the header lines of a part, from line k
ReadHeaderLines(lines, k, fields) ==
    IF k > Len(lines) THEN fields
    ELSE LET line == lines[k]
         IN  ReadHeaderLines(lines, k + 1,
                IF ifind_first(line, s_content_disposition)
                THEN [fields EXCEPT
                        !.name = _extract_between(line, s_name_eq, s_quote),
                        !.filename =
                            _extract_between(line, s_filename_eq, s_quote)]
                ELSE IF ifind_first(line, s_content_type)
                THEN [fields EXCEPT !.ctype = AfterColon(line)]
                ELSE fields)

\* file_t(std::move(filename), std::move(ctype), std::move(data)) and
\* file_t(std::move(filename), std::move(ctype), std::move(tmp)); m_data
\* stands for the bytes of the file wherever they are kept
File(filename, ctype, data, in_memory) ==
    [m_name |-> filename, m_content_type |-> ctype, m_data |-> data,
     m_in_memory |-> in_memory]

\* multipart.hxx:94-95  the part is kept in memory
FitsInMemory(content_len, in_memory_total, limits) ==
    /\ content_len <= limits.max_size_file_in_memory
    /\ in_memory_total + content_len <= limits.max_size_files_in_memory

\* files_t::emplace (boost::unordered_map): a name already present keeps
\* its file
FilesEmplace(ret, name, file) ==
    IF name \in DOMAIN ret THEN ret ELSE ret @@ (name :> file)

NoFiles == <<>>

RECURSIVE ParseLoop(_, _, _, _, _, _)
\* multipart.hxx:52-133  the while loop, entered with pos, ret and
\* in_memory_total; the result is ret and saw_closing_boundary when the
\* loop is left
ParseLoop(body, dash_boundary, limits, pos, ret, in_memory_total) ==
    LET found == StrFind(body, dash_boundary, pos)
    IN  IF found = 0 THEN [ret |-> ret, saw_closing_boundary |-> FALSE]
        ELSE
        LET after == found + Len(dash_boundary)
        IN  IF CompareAt(body, after, s_dashes)
            THEN [ret |-> ret, saw_closing_boundary |-> TRUE]
            ELSE
            LET head == IF CompareAt(body, after, s_crlf)
                        THEN after + 2 ELSE after
                header_end == StrFind(body, s_blank_line, head)
            IN  IF header_end = 0
                THEN [ret |-> ret, saw_closing_boundary |-> FALSE]
                ELSE
                LET headers == SubSeq(body, head, header_end - 1)
                    content == header_end + 4
                    fields == ReadHeaderLines(_split(headers, s_crlf), 1,
                                              NoFields)
                    part_end == StrFind(body, s_crlf, content)
                IN  IF part_end = 0
                    THEN [ret |-> ret, saw_closing_boundary |-> FALSE]
                    ELSE
                    LET data == SubSeq(body, content, part_end - 1)
                        content_len == part_end - content
                        is_file ==
                          fields.name # <<>> /\ fields.filename # <<>>
                        in_memory ==
                          FitsInMemory(content_len, in_memory_total, limits)
                        kept ==
                          IF is_file
                          THEN FilesEmplace(ret, fields.name,
                                  File(fields.filename, fields.ctype, data,
                                       in_memory))
                          ELSE ret
                        total ==
                          IF is_file /\ in_memory
                          THEN in_memory_total + content_len
                          ELSE in_memory_total
                    IN  ParseLoop(body, dash_boundary, limits,
                                  part_end + Len(s_crlf), kept, total)

\* multipart.hxx:25-142  parse_async; limits holds
\* max_size_file_in_memory and max_size_files_in_memory
parse_async(body, boundary, limits) ==
    LET dash_boundary == s_dashes \o boundary
    IN  IF StrFind(body, dash_boundary, 1) = 0 THEN NoFiles
        ELSE LET left == ParseLoop(body, dash_boundary, limits, 1,
                                   NoFiles, 0)
             IN  IF ~left.saw_closing_boundary THEN NoFiles ELSE left.ret

(***************************************************************************)
(* multipart_t::parse_from_file_async, the temp-file multipart parser      *)
(***************************************************************************)
Min(a, b) == IF a <= b THEN a ELSE b
Max(a, b) == IF a >= b THEN a ELSE b

\* multipart.hxx:540-583  async_read_line: the bytes from pos up to and
\* including the next '\n', at most chunk_size of them; pos moves past them
async_read_line(file, pos, chunk_size) ==
    LET newline == StrFind(file, <<"\n">>, pos)
        end == IF newline = 0 THEN Len(file) ELSE newline
        stop == Min(end, pos + chunk_size - 1)
    IN  [line |-> SubSeq(file, pos, stop), pos |-> Max(pos, stop + 1)]

\* multipart.hxx:207-214  normalized_line: one trailing '\n' and then one
\* trailing '\r' are dropped
NormalizedLine(line) ==
    LET no_lf == IF line # <<>> /\ line[Len(line)] = "\n"
                 THEN SubSeq(line, 1, Len(line) - 1) ELSE line
    IN  IF no_lf # <<>> /\ no_lf[Len(no_lf)] = "\r"
        THEN SubSeq(no_lf, 1, Len(no_lf) - 1) ELSE no_lf

RECURSIVE InitialBoundary(_, _, _, _)
\* multipart.hxx:201-220  lines are skipped until one equals --<boundary>
InitialBoundary(file, pos, dash_boundary, chunk_size) ==
    LET read == async_read_line(file, pos, chunk_size)
    IN  IF NormalizedLine(read.line) = dash_boundary
        THEN [boundary_found |-> TRUE, pos |-> read.pos]
        ELSE IF read.line = <<>>
        THEN [boundary_found |-> FALSE, pos |-> read.pos]
        ELSE InitialBoundary(file, read.pos, dash_boundary, chunk_size)

RECURSIVE HeadersBlob(_, _, _, _)
\* multipart.hxx:227-246  the header lines up to the first empty line, each
\* followed by CR LF
HeadersBlob(file, pos, chunk_size, headers_blob) ==
    LET read == async_read_line(file, pos, chunk_size)
        normalized_line == NormalizedLine(read.line)
    IN  IF normalized_line = <<>>
        THEN [headers_blob |-> headers_blob, pos |-> read.pos]
        ELSE HeadersBlob(file, read.pos, chunk_size,
                         headers_blob \o normalized_line \o s_crlf)

\* boost::algorithm::trim
Trim(str) ==
    LET kept == {i \in DOMAIN str : str[i] \notin {" ", "\t", "\r", "\n"}}
    IN  IF kept = {} THEN <<>>
        ELSE SubSeq(str, CHOOSE i \in kept : \A j \in kept : i <= j,
                         CHOOSE i \in kept : \A j \in kept : i >= j)

RECURSIVE PartHeaderLines(_, _, _)
\* multipart.hxx:588-606  the loop of parse_part_headers, from line k
PartHeaderLines(lines, k, fields) ==
    IF k > Len(lines) THEN fields
    ELSE LET line == lines[k]
             colon == StrFind(line, s_colon, 1)
         IN  PartHeaderLines(lines, k + 1,
                IF ifind_first(line, s_content_disposition)
                THEN [fields EXCEPT
                        !.name = _extract_between(line, s_name_eq, s_quote),
                        !.filename =
                            _extract_between(line, s_filename_eq, s_quote)]
                ELSE IF ifind_first(line, s_content_type) /\ colon # 0
                THEN [fields EXCEPT
                        !.ctype = Trim(SubSeq(line, colon + 1, Len(line)))]
                ELSE fields)

\* multipart.hxx:579-609
parse_part_headers(headers_blob) ==
    PartHeaderLines(_split(headers_blob, s_crlf), 1, NoFields)

RECURSIVE PartContent(_, _, _, _, _, _, _, _)
\* multipart.hxx:280-455  the loop that reads the content of one part: the
\* file is read chunk_size_disk bytes at a time into search_buffer until
\* \r\n--<boundary> is in it; the file position is then moved back to the
\* byte after the delimiter.  A part kept in memory is moved to a temp file
\* when it outgrows max_size_file_in_memory.
PartContent(file, pos, dash_boundary, limits, search_buffer, data, in_memory, part_bytes) ==
    LET full_boundary == s_crlf \o dash_boundary
        full_boundary_end == full_boundary \o s_dashes
        max_boundary_size == Len(full_boundary_end) * 2
        bytes_read == Min(limits.chunk_size_disk, Len(file) - pos + 1)
    IN  IF bytes_read <= 0
        THEN [boundary_found |-> FALSE, is_final_boundary |-> FALSE,
              pos |-> pos, data |-> data, in_memory |-> in_memory]
        ELSE
        LET buffer == search_buffer \o SubSeq(file, pos, pos + bytes_read - 1)
            after_read == pos + bytes_read
            normal_pos == StrFind(buffer, full_boundary, 1)
            end_pos == StrFind(buffer, full_boundary_end, 1)
        IN  IF normal_pos # 0 \/ end_pos # 0
            THEN
               LET boundary_pos ==
                      IF normal_pos # 0 /\ end_pos # 0
                      THEN Min(normal_pos, end_pos)
                      ELSE IF normal_pos # 0 THEN normal_pos ELSE end_pos
                   is_final_boundary ==
                      IF normal_pos # 0 /\ end_pos # 0
                      THEN boundary_pos = end_pos
                      ELSE normal_pos = 0
                   content_bytes == boundary_pos - 1
                   boundary_length ==
                      IF is_final_boundary THEN Len(full_boundary_end)
                      ELSE Len(full_boundary)
                   rewind_amount ==
                      Len(buffer) - (content_bytes + boundary_length)
               IN  [boundary_found |-> TRUE,
                    is_final_boundary |-> is_final_boundary,
                    pos |-> after_read - rewind_amount,
                    data |-> data \o SubSeq(buffer, 1, content_bytes),
                    in_memory |->
                       /\ in_memory
                       /\ ~(/\ content_bytes > 0
                            /\ part_bytes + content_bytes
                                  > limits.max_size_file_in_memory)]
            ELSE IF Len(buffer) > max_boundary_size
            THEN
               LET write_size == Len(buffer) - max_boundary_size
               IN  PartContent(file, after_read, dash_boundary, limits,
                      SubSeq(buffer, write_size + 1, Len(buffer)),
                      data \o SubSeq(buffer, 1, write_size),
                      /\ in_memory
                      /\ part_bytes + write_size
                            <= limits.max_size_file_in_memory,
                      part_bytes + write_size)
            ELSE PartContent(file, after_read, dash_boundary, limits,
                             buffer, data, in_memory, part_bytes)

\* the state a moved-from std::string is left in
MovedFromString == <<>>

Threw(what) == [threw |-> what, ret |-> NoFiles]

RECURSIVE FileParts(_, _, _, _, _)
\* multipart.hxx:222-466  the loop over the parts, entered with the file
\* position after a delimiter
FileParts(file, pos, dash_boundary, limits, ret) ==
    LET head == HeadersBlob(file, pos, limits.chunk_size, <<>>)
        fields == parse_part_headers(head.headers_blob)
    IN  IF fields.name = <<>>
        THEN Threw("Missing name parameter in Content-Disposition header")
        ELSE
        LET part == PartContent(file, head.pos, dash_boundary, limits, <<>>,
                                <<>>, fields.filename = <<>>, 0)
            kept ==
               IF part.in_memory
               THEN \* ret.emplace(name, file_t{std::move(name), ...}): the
                    \* file is built, and name moved from, before the key
                    FilesEmplace(ret, MovedFromString,
                       File(fields.name, fields.ctype, part.data, TRUE))
               ELSE FilesEmplace(ret, fields.name,
                       File(fields.filename, fields.ctype, part.data, FALSE))
        IN  IF part.is_final_boundary THEN [threw |-> "", ret |-> kept]
            ELSE FileParts(file, part.pos, dash_boundary, limits, kept)

\* multipart.hxx:153-478  parse_from_file_async; every exception raised
\* inside leaves as a processing_exception_t
parse_from_file_async(file, boundary, limits) ==
    IF boundary = <<>> THEN Threw("Empty boundary is not allowed")
    ELSE IF boundary[Len(boundary)] \in {" ", "\t", "\r", "\n"}
    THEN Threw("Boundary can't end with whitespace")
    ELSE
    LET dash_boundary == s_dashes \o boundary
        first == InitialBoundary(file, 1, dash_boundary, limits.chunk_size)
    IN  IF ~first.boundary_found
        THEN Threw("Invalid format, initial boundary not found")
        ELSE FileParts(file, first.pos, dash_boundary, limits, NoFiles)

(***************************************************************************)
(* The multipart bodies a client sends                                     *)
(***************************************************************************)
Boundary == <<"B">>
s_disposition_form_data ==
    <<"C","o","n","t","e","n","t","-","D","i","s","p","o","s","i","t","i",
      "o","n",":"," ","f","o","r","m","-","d","a","t","a">>
s_semicolon_name == <<";"," ","n","a","m","e","=","\"">>
s_semicolon_filename == <<";"," ","f","i","l","e","n","a","m","e","=","\"">>
s_content_type_text_plain ==
    <<"C","o","n","t","e","n","t","-","T","y","p","e",":"," ","t","e","x",
      "t","/","p","l","a","i","n">>

\* the field name and the file name of a part; <<>> is a part without one
Dispositions ==
    {[name |-> <<>>, filename |-> <<"f">>],
     [name |-> <<"a">>, filename |-> <<>>],
     [name |-> <<"a">>, filename |-> <<"f">>],
     [name |-> <<"a">>, filename |-> <<"g">>],
     [name |-> <<"b">>, filename |-> <<"f">>]}

\* the bytes of a part: plain text, text with a CR LF inside, text holding
\* --<boundary> in the middle of a line, and text holding --<boundary> or
\* --<boundary>-- in the middle of its second line
Contents ==
    {<<"x">>,
     <<"x", "\r", "\n", "y">>,
     <<"x", "-", "-", "B", "y">>,
     <<"x", "\r", "\n", "y", "-", "-", "B", "z">>,
     <<"x", "\r", "\n", "y", "-", "-", "B", "-", "-", "z">>}

PartsOfBody ==
    {[name |-> d.name, filename |-> d.filename, content |-> c] :
        d \in Dispositions, c \in Contents}

\* one part as a client writes it (test_http_ctx.cxx:251-259)
WritePart(part) ==
    s_dashes \o Boundary \o s_crlf
    \o s_disposition_form_data
    \o (IF part.name = <<>> THEN <<>>
        ELSE s_semicolon_name \o part.name \o s_quote)
    \o (IF part.filename = <<>> THEN <<>>
        ELSE s_semicolon_filename \o part.filename \o s_quote)
    \o s_crlf
    \o s_content_type_text_plain \o s_crlf
    \o s_crlf
    \o part.content \o s_crlf

RECURSIVE WriteParts(_, _)
WriteParts(parts, k) ==
    IF k > Len(parts) THEN <<>>
    ELSE WritePart(parts[k]) \o WriteParts(parts, k + 1)

\* a body that ends with the closing delimiter --<boundary>--, or one cut
\* off before it
WriteBody(parts, closed) ==
    WriteParts(parts, 1)
    \o (IF closed THEN s_dashes \o Boundary \o s_dashes ELSE <<>>)

\* multipart.hxx:30-33, 160-164  the default limits and chunk sizes of
\* parse_async and parse_from_file_async
DefaultLimits ==
    [max_size_file_in_memory |-> 1048576,
     max_size_files_in_memory |-> 10485760,
     chunk_size |-> 16384, chunk_size_disk |-> 65536]

InitMultipart ==
    /\ mp_pc = "idle"
    /\ mp_parts = <<>>
    /\ mp_closed = FALSE
    /\ mp_limits = DefaultLimits
    /\ mp_body = <<>>
    /\ mp_files = NoFiles
    /\ mp_threw = ""

\* a request with a multipart body of at most MaxParts parts has been read
ReceiveBody ==
    /\ mp_pc = "idle"
    /\ \E n \in 0..MaxParts, closed \in BOOLEAN :
          \E parts \in [1..n -> PartsOfBody] :
             /\ mp_parts' = parts
             /\ mp_closed' = closed
             /\ mp_body' = WriteBody(parts, closed)
    /\ mp_pc' = "received"
    /\ mp_files' = NoFiles
    /\ mp_threw' = ""
    /\ UNCHANGED mp_limits
    /\ UNCHANGED notMultipart

\* the limits an application configures: one file of at most 1 or 2 bytes,
\* all files of at most 2 or 3 bytes
UploadLimits ==
    [max_size_file_in_memory : {1, 2}, max_size_files_in_memory : {2, 3},
     chunk_size : {16384}, chunk_size_disk : {65536}]

\* the parts of an upload: each carries a name and a filename and holds one
\* or two bytes of plain text
UploadParts ==
    [name : {<<"a">>, <<"b">>}, filename : {<<"f">>},
     content : {<<"x">>, <<"x", "x">>}]

\* a request with a well-formed upload of at most MaxUploadParts files has
\* been read by an application with small limits
ReceiveUpload ==
    /\ mp_pc = "idle"
    /\ \E n \in 0..MaxUploadParts, limits \in UploadLimits :
          \E parts \in [1..n -> UploadParts] :
             /\ mp_parts' = parts
             /\ mp_limits' = limits
             /\ mp_body' = WriteBody(parts, TRUE)
    /\ mp_closed' = TRUE
    /\ mp_pc' = "received"
    /\ mp_files' = NoFiles
    /\ mp_threw' = ""
    /\ UNCHANGED notMultipart

\* http_ctx.hxx:116  m_files = co_await multipart_t::parse_async(...)
ParseAsync ==
    /\ mp_pc = "received"
    /\ mp_files' = parse_async(mp_body, Boundary, mp_limits)
    /\ mp_pc' = "parsed"
    /\ UNCHANGED <<mp_parts, mp_closed, mp_limits, mp_body, mp_threw>>
    /\ UNCHANGED notMultipart

\* the sizes of the chunks the temp-file parser reads: the default, and one
\* shorter than a delimiter
DiskChunks == {8, 65536}

\* http_ctx.hxx:85  the body was streamed to a file:
\* m_files = co_await multipart_t::parse_from_file_async(...)
ParseFromFileAsync ==
    /\ mp_pc = "received"
    /\ \E chunk \in DiskChunks :
          LET limits == [mp_limits EXCEPT !.chunk_size_disk = chunk]
              parsed == parse_from_file_async(mp_body, Boundary, limits)
          IN  /\ mp_limits' = limits
              /\ mp_files' = parsed.ret
              /\ mp_threw' = parsed.threw
    /\ mp_pc' = "parsed_from_file"
    /\ UNCHANGED <<mp_parts, mp_closed, mp_body>>
    /\ UNCHANGED notMultipart

NextMultipart ==
    \/ ReceiveBody
    \/ ParseAsync
    \/ ParseFromFileAsync

NextUpload ==
    \/ ReceiveUpload
    \/ ParseAsync

(***************************************************************************)
(* The header map of a received request                                    *)
(***************************************************************************)
s_Host == <<"H","o","s","t">>
s_value_a == <<"a">>
s_value_b == <<"b">>

\* header fields as a client sends them: a name in two spellings and another
\* name, each with one of two values
SentFields ==
    [name : {s_Connection, s_connection, s_Host},
     value : {s_value_a, s_value_b}]

InitHeaders ==
    /\ h_pc = "idle"
    /\ h_fields = <<>>
    /\ h_headers = <<>>

\* client.cxx:25-41  async_read_header: the parser holds the fields in the
\* order they were received
ReceiveFields ==
    /\ h_pc = "idle"
    /\ \E n \in 0..MaxFields :
       \E fields \in [1..n -> SentFields] :
          h_fields' = fields
    /\ h_pc' = "received"
    /\ UNCHANGED h_headers
    /\ UNCHANGED notHeaders

\* client.cxx:58-59  for (auto& field : hdr_req)
\*                       req.headers().emplace(field.name_string(), ...)
CopyFields ==
    /\ h_pc = "received"
    /\ h_headers' = HeadersOf(h_fields)
    /\ h_pc' = "copied"
    /\ UNCHANGED h_fields
    /\ UNCHANGED notHeaders

NextHeaders ==
    \/ ReceiveFields
    \/ CopyFields

(***************************************************************************)
(* c_server::start and c_server::do_accept                                 *)
(***************************************************************************)
\* what std::thread::hardware_concurrency() may return on the machines
\* looked at
HardwareConcurrency == {1, 8}

\* cxxapi.hxx:105-111  socket_t: m_tcp_no_delay, m_rcv_buf_size,
\* m_snd_buf_size (0 leaves the size alone, 524288 is the default)
SocketConfigs ==
    [m_tcp_no_delay : BOOLEAN,
     m_rcv_buf_size : {0, 524288},
     m_snd_buf_size : {0, 524288}]

SocketOptions == {"no_delay", "receive_buffer_size", "send_buffer_size"}

InitAccept ==
    /\ a_pc = "constructed"
    /\ a_workers = 0
    /\ a_acceptors = 0
    /\ a_cfg = [m_tcp_no_delay |-> TRUE, m_rcv_buf_size |-> 524288,
                m_snd_buf_size |-> 524288]
    /\ a_sockets = <<>>

\* server.cxx:60  workers = (workers_count <= 0u)
\*                     ? std::thread::hardware_concurrency() : workers_count
Workers(workers_count, hardware_concurrency) ==
    IF workers_count <= 0 THEN hardware_concurrency ELSE workers_count

\* server.cxx:68-74  acceptors_count = workers / 4u, raised to 1 only when
\* workers > 1u
AcceptorsCount(workers) ==
    LET acceptors_count == workers \div 4
    IN  IF acceptors_count <= 0 /\ workers > 1 THEN 1 ELSE acceptors_count

\* server.cxx:56-88  c_server::start: one co_spawn of do_accept() per
\* acceptor
ServerStart ==
    /\ a_pc = "constructed"
    /\ \E workers_count \in 0..MaxWorkers :
       \E hardware_concurrency \in HardwareConcurrency :
          /\ a_workers' = Workers(workers_count, hardware_concurrency)
          /\ a_acceptors' = AcceptorsCount(a_workers')
    /\ \E cfg \in SocketConfigs : a_cfg' = cfg
    /\ a_pc' = "started"
    /\ UNCHANGED a_sockets
    /\ UNCHANGED notAccept

\* socket.set_option(option, error_code) behind if (enabled): set_option
\* assigns error_code whatever the result, so a success clears it
SetOption(error_code, enabled, fails) ==
    IF enabled THEN fails ELSE error_code

\* server.cxx:234-252  the three options are set one after the other into
\* one error_code, which is looked at once, after the last of them
OptionsErrorCode(cfg, failing) ==
    LET after_no_delay ==
           SetOption(FALSE, cfg.m_tcp_no_delay, "no_delay" \in failing)
        after_rcv ==
           SetOption(after_no_delay, cfg.m_rcv_buf_size # 0,
                     "receive_buffer_size" \in failing)
    IN  SetOption(after_rcv, cfg.m_snd_buf_size # 0,
                  "send_buffer_size" \in failing)

\* the options do_accept sets under cfg
OptionsSet(cfg) ==
    {o \in SocketOptions :
        \/ o = "no_delay" /\ cfg.m_tcp_no_delay
        \/ o = "receive_buffer_size" /\ cfg.m_rcv_buf_size # 0
        \/ o = "send_buffer_size" /\ cfg.m_snd_buf_size # 0}

\* server.cxx:212-277  one round of the loop of a do_accept coroutine with
\* a socket accepted: options, then close and continue, or co_spawn of
\* client_t::start
DoAccept ==
    /\ a_pc = "started"
    /\ a_acceptors > 0
    /\ Len(a_sockets) < MaxAccepted
    /\ \E failing \in SUBSET OptionsSet(a_cfg) :
          LET error_code == OptionsErrorCode(a_cfg, failing)
          IN  a_sockets' = Append(a_sockets,
                                  [failed |-> failing,
                                   closed |-> error_code,
                                   client |-> ~error_code])
    /\ UNCHANGED <<a_pc, a_workers, a_acceptors, a_cfg>>
    /\ UNCHANGED notAccept

NextAccept ==
    \/ ServerStart
    \/ DoAccept

(***************************************************************************)
(* c_redis::c_connection_pool                                              *)
(***************************************************************************)
\* the coroutines that call acquire_connection
Acquirers == 1..NumAcquirers

\* redis.hxx:1389  for (attempt{}; attempt < 5u; attempt++)
WaitAttempts == 5

InitPool ==
    /\ p_running = FALSE
    /\ p_pool = <<>>
    /\ p_mutex = 0
    /\ p_pc = [c \in Acquirers |-> "idle"]
    /\ p_handle = [c \in Acquirers |-> 0]
    /\ p_attempt = [c \in Acquirers |-> 0]

\* redis.hxx:1256-1270  init: m_initial_connections handles, none in use
PoolInit ==
    /\ ~p_running
    /\ p_pool = <<>>
    /\ \E m_initial_connections \in 0..MaxConnections :
          p_pool' = [i \in 1..m_initial_connections |-> [m_in_use |-> FALSE]]
    /\ p_running' = TRUE
    /\ UNCHANGED <<p_mutex, p_pc, p_handle, p_attempt>>
    /\ UNCHANGED notPool

\* std::find_if(m_pool.begin(), m_pool.end(), !conn->m_in_use): the place
\* of the first handle not in use, 0 for m_pool.end()
FindFree(m_pool) ==
    IF \A i \in DOMAIN m_pool : m_pool[i].m_in_use THEN 0
    ELSE CHOOSE i \in DOMAIN m_pool :
            /\ ~m_pool[i].m_in_use
            /\ \A j \in 1..(i - 1) : m_pool[j].m_in_use

\* redis.hxx:1349-1387  acquire_connection up to its first suspension: the
\* pool is searched under the lock; with no free handle and room in the pool
\* the lock is given up before create_connection, else the caller waits
AcquireConnection(c) ==
    /\ p_running
    /\ p_pc[c] = "idle"
    /\ p_mutex = 0
    /\ LET it == FindFree(p_pool)
       IN  IF it # 0
           THEN /\ p_pool' = [p_pool EXCEPT ![it].m_in_use = TRUE]
                /\ p_handle' = [p_handle EXCEPT ![c] = it]
                /\ p_pc' = [p_pc EXCEPT ![c] = "health_check"]
                /\ p_mutex' = c
                /\ UNCHANGED p_attempt
           ELSE IF Len(p_pool) < MaxConnections
           THEN /\ p_pc' = [p_pc EXCEPT ![c] = "create_connection"]
                /\ UNCHANGED <<p_pool, p_handle, p_mutex, p_attempt>>
           ELSE /\ p_pc' = [p_pc EXCEPT ![c] = "wait_timer"]
                /\ p_attempt' = [p_attempt EXCEPT ![c] = 0]
                /\ UNCHANGED <<p_pool, p_handle, p_mutex>>
    /\ UNCHANGED p_running
    /\ UNCHANGED notPool

\* redis.hxx:1368-1379  create_connection returns: nullptr ends the call,
\* a handle is pushed to m_pool under the lock taken again
CreateConnection(c) ==
    /\ p_pc[c] = "create_connection"
    /\ \/ /\ p_pc' = [p_pc EXCEPT ![c] = "idle"]
          /\ UNCHANGED <<p_pool, p_handle, p_mutex>>
       \/ /\ p_mutex = 0
          /\ p_pool' = Append(p_pool, [m_in_use |-> TRUE])
          /\ p_handle' = [p_handle EXCEPT ![c] = Len(p_pool) + 1]
          /\ p_pc' = [p_pc EXCEPT ![c] = "health_check"]
          /\ p_mutex' = c
    /\ UNCHANGED <<p_running, p_attempt>>
    /\ UNCHANGED notPool

\* redis.hxx:1389-1412  one round of the waiting loop: the timer ends, the
\* pool is searched again under the lock; after the last round without a
\* handle the call returns std::nullopt
WaitTimer(c) ==
    /\ p_pc[c] = "wait_timer"
    /\ p_mutex = 0
    /\ LET it == FindFree(p_pool)
       IN  IF it # 0
           THEN /\ p_pool' = [p_pool EXCEPT ![it].m_in_use = TRUE]
                /\ p_handle' = [p_handle EXCEPT ![c] = it]
                /\ p_pc' = [p_pc EXCEPT ![c] = "health_check"]
                /\ UNCHANGED p_attempt
           ELSE /\ p_attempt' = [p_attempt EXCEPT ![c] = p_attempt[c] + 1]
                /\ p_pc' = [p_pc EXCEPT ![c] =
                               IF p_attempt[c] + 1 < WaitAttempts
                               THEN "wait_timer" ELSE "idle"]
                /\ UNCHANGED <<p_pool, p_handle>>
    /\ UNCHANGED <<p_running, p_mutex>>
    /\ UNCHANGED notPool

\* redis.hxx:1416-1428  the health check and the return.  A handle that is
\* alive or established again is returned, and the lock, where the caller
\* still holds it, ends with the scope.  Else release_connection is called:
\* it locks m_pool_mutex, which the caller may hold itself; locking a
\* std::mutex twice from one thread is undefined, the caller hangs or goes on
HealthCheck(c) ==
    /\ p_pc[c] = "health_check"
    /\ \/ /\ p_pc' = [p_pc EXCEPT ![c] = "holding"]
          /\ p_mutex' = IF p_mutex = c THEN 0 ELSE p_mutex
          /\ UNCHANGED <<p_pool, p_handle>>
       \/ /\ p_mutex \in {0, c}
          /\ p_pool' = [p_pool EXCEPT ![p_handle[c]].m_in_use = FALSE]
          /\ p_handle' = [p_handle EXCEPT ![c] = 0]
          /\ p_pc' = [p_pc EXCEPT ![c] = "idle"]
          /\ p_mutex' = 0
       \/ /\ p_mutex = c
          /\ p_pc' = [p_pc EXCEPT ![c] = "self_deadlock"]
          /\ UNCHANGED <<p_pool, p_handle, p_mutex>>
    /\ UNCHANGED <<p_running, p_attempt>>
    /\ UNCHANGED notPool

\* redis.hxx:1436-1444  release_connection, called by the destructor of the
\* scoped_connection_t
ReleaseConnection(c) ==
    /\ p_pc[c] = "holding"
    /\ p_mutex = 0
    /\ p_pool' = [p_pool EXCEPT ![p_handle[c]].m_in_use = FALSE]
    /\ p_handle' = [p_handle EXCEPT ![c] = 0]
    /\ p_pc' = [p_pc EXCEPT ![c] = "idle"]
    /\ UNCHANGED <<p_running, p_mutex, p_attempt>>
    /\ UNCHANGED notPool

NextPool ==
    \/ PoolInit
    \/ \E c \in Acquirers :
          \/ AcquireConnection(c)
          \/ CreateConnection(c)
          \/ WaitTimer(c)
          \/ HealthCheck(c)
          \/ ReleaseConnection(c)

(***************************************************************************)
(* log_buffer_t                                                            *)
(***************************************************************************)
LogThreads == 1..NumLogThreads

InitLog ==
    /\ l_buffer = <<>>
    /\ l_shared = {}
    /\ l_count = [t \in LogThreads |-> 0]
    /\ l_batch = [t \in LogThreads |-> <<>>]
    /\ l_handed = <<>>
    /\ l_pushed = 0
    /\ l_empty = TRUE

\* logging.hxx:63-72  push, under std::unique_lock
LogPush ==
    /\ l_shared = {}
    /\ l_pushed < MaxPushed
    /\ IF Len(l_buffer) >= LogCapacity
       THEN UNCHANGED <<l_buffer, l_pushed>>
       ELSE /\ l_buffer' = Append(l_buffer, [id |-> l_pushed + 1,
                                             moved |-> FALSE])
            /\ l_pushed' = l_pushed + 1
    /\ UNCHANGED <<l_shared, l_count, l_batch, l_handed, l_empty>>
    /\ UNCHANGED notLog

\* logging.hxx:79-90  pop, under std::unique_lock
LogPop ==
    /\ l_shared = {}
    /\ l_buffer # <<>>
    /\ l_handed' = Append(l_handed, [id |-> l_buffer[1].id, intact |-> TRUE])
    /\ l_buffer' = Tail(l_buffer)
    /\ UNCHANGED <<l_shared, l_count, l_batch, l_pushed, l_empty>>
    /\ UNCHANGED notLog

\* logging.hxx:106-110  empty, under std::shared_lock
LogEmpty ==
    /\ l_empty' = (l_buffer = <<>>)
    /\ UNCHANGED <<l_buffer, l_shared, l_count, l_batch, l_handed, l_pushed>>
    /\ UNCHANGED notLog

\* logging.hxx:117-127  get_batch up to the end of its loop.  The lock is a
\* std::shared_lock, which other callers of get_batch and empty hold with
\* it, so the moves out of m_buffer are not ordered against theirs: a
\* message another call is moving out is read with its text or without
GetBatchMove(t) ==
    /\ t \notin l_shared
    /\ l_buffer # <<>>
    /\ \E batch_size \in 1..MaxBatchSize :
       \E races_intact \in BOOLEAN :
          LET count == Min(batch_size, Len(l_buffer))
          IN  /\ l_count' = [l_count EXCEPT ![t] = count]
              /\ l_batch' = [l_batch EXCEPT ![t] =
                                [i \in 1..count |->
                                   [id |-> l_buffer[i].id,
                                    intact |-> IF l_buffer[i].moved
                                               THEN races_intact
                                               ELSE TRUE]]]
              /\ l_buffer' = [i \in DOMAIN l_buffer |->
                                IF i <= count
                                THEN [l_buffer[i] EXCEPT !.moved = TRUE]
                                ELSE l_buffer[i]]
    /\ l_shared' = l_shared \cup {t}
    /\ UNCHANGED <<l_handed, l_pushed, l_empty>>
    /\ UNCHANGED notLog

\* logging.hxx:129-131  m_buffer.erase(begin, begin + count) and the
\* return; when another call erased in between, fewer than count messages
\* are left and what is left of them goes
GetBatchErase(t) ==
    /\ t \in l_shared
    /\ l_buffer' = SubSeq(l_buffer, Min(l_count[t], Len(l_buffer)) + 1,
                          Len(l_buffer))
    /\ l_handed' = l_handed \o l_batch[t]
    /\ l_shared' = l_shared \ {t}
    /\ l_count' = [l_count EXCEPT ![t] = 0]
    /\ l_batch' = [l_batch EXCEPT ![t] = <<>>]
    /\ UNCHANGED <<l_pushed, l_empty>>
    /\ UNCHANGED notLog

NextLog ==
    \/ LogPush
    \/ LogPop
    \/ LogEmpty
    \/ \E t \in LogThreads :
          \/ GetBatchMove(t)
          \/ GetBatchErase(t)

(***************************************************************************)
(* client_t::start over the byte stream of a connection                    *)
(***************************************************************************)
\* the requests of a client that keeps the connection alive: plain ones,
\* multipart uploads with or without a Content-Length, and requests whose
\* Content-Length is above max_request_size; a body is data or bytes that
\* read like a request of their own
StreamRequests ==
    {r \in [kind : {"plain", "multipart", "multipart_no_clen", "oversize"},
            body : {"none", "data", "request"}] :
        r.kind # "plain" => r.body # "none"}

\* request i on the wire: its header in two pieces, then its body
PiecesOf(i, r) ==
    <<[req |-> i, part |-> "h1", kind |-> r.kind, body |-> r.body],
      [req |-> i, part |-> "h2", kind |-> r.kind, body |-> r.body]>>
    \o (IF r.body = "none" THEN <<>>
        ELSE <<[req |-> i, part |-> "body", kind |-> r.kind,
                body |-> r.body]>>)

RECURSIVE StreamOf(_)
StreamOf(requests) ==
    IF requests = <<>> THEN <<>>
    ELSE StreamOf(SubSeq(requests, 1, Len(requests) - 1))
            \o PiecesOf(Len(requests), requests[Len(requests)])

NoStreamRequest == [req |-> 0, kind |-> "plain", body |-> "none"]

InitStream ==
    /\ b_pc = "idle"
    /\ b_stream = <<>>
    /\ b_taken = 0
    /\ b_buffer = <<>>
    /\ b_request = NoStreamRequest
    /\ b_headers = <<>>
    /\ b_responses = <<>>

\* the client writes its requests one after the other and then closes
ClientSends ==
    /\ b_pc = "idle"
    /\ \E n \in 1..MaxStreamRequests :
       \E requests \in [1..n -> StreamRequests] :
          b_stream' = StreamOf(requests)
    /\ b_pc' = "top"
    /\ UNCHANGED <<b_taken, b_buffer, b_request, b_headers, b_responses>>
    /\ UNCHANGED notStream

\* client.cxx:8-17  the top of the loop: m_buffer.consume(m_buffer.size())
StreamLoopTop ==
    /\ b_pc = "top"
    /\ b_buffer' = <<>>
    /\ b_pc' = "read_header"
    /\ UNCHANGED <<b_stream, b_taken, b_request, b_headers, b_responses>>
    /\ UNCHANGED notStream

\* the header parser over what m_buffer holds: "more" when the header is not
\* complete, the request when the pieces at the front are a header or read
\* like one, "error" otherwise
HeaderParse(buffer) ==
    IF buffer = <<>> THEN [result |-> "more"]
    ELSE IF buffer[1].part = "h1"
    THEN IF Len(buffer) < 2 THEN [result |-> "more"]
         ELSE [result |-> "parsed", consumed |-> 2,
               request |-> [req |-> buffer[1].req, kind |-> buffer[1].kind,
                            body |-> buffer[1].body]]
    ELSE IF buffer[1].part = "body" /\ buffer[1].body = "request"
    THEN [result |-> "parsed", consumed |-> 1, request |-> NoStreamRequest]
    ELSE [result |-> "error"]

\* which positions of the loop wait for bytes of the socket
WantsBytes ==
    \/ b_pc = "read_header" /\ HeaderParse(b_buffer).result = "more"
    \/ b_pc \in {"read_body", "stream_request"} /\ b_buffer = <<>>

\* one read of the socket inside async_read_header, async_read or
\* stream_request (utils.hxx:74-82 async_read_some): it returns what has
\* arrived, which may go past the end of the request being read
SocketRead ==
    /\ WantsBytes
    /\ b_taken < Len(b_stream)
    /\ \E k \in 1..(Len(b_stream) - b_taken) :
          /\ b_buffer' = b_buffer \o SubSeq(b_stream, b_taken + 1, b_taken + k)
          /\ b_taken' = b_taken + k
    /\ UNCHANGED <<b_pc, b_stream, b_request, b_headers, b_responses>>
    /\ UNCHANGED notStream

\* client.cxx:25-103  async_read_header returns: end_of_stream ends the
\* loop, an error (body_limit for an oversize Content-Length among them) is
\* thrown as 500, a multipart request without Content-Length is answered
\* 400; in both cases the body is not read
StreamReadHeader ==
    /\ b_pc = "read_header"
    /\ LET parse == HeaderParse(b_buffer)
       IN  IF parse.result = "more"
           THEN /\ b_taken = Len(b_stream)
                /\ b_pc' = IF b_buffer = <<>> THEN "done" ELSE "error_500"
                /\ UNCHANGED <<b_buffer, b_request, b_headers>>
           ELSE IF parse.result = "error"
           THEN /\ b_pc' = "error_500"
                /\ b_request' = NoStreamRequest
                /\ UNCHANGED <<b_buffer, b_headers>>
           ELSE /\ b_headers' = Append(b_headers, b_buffer[1])
                /\ b_request' = parse.request
                /\ b_buffer' = SubSeq(b_buffer, parse.consumed + 1,
                                      Len(b_buffer))
                /\ b_pc' = IF parse.request.kind = "oversize"
                           THEN "error_500"
                           ELSE IF parse.request.kind = "multipart_no_clen"
                           THEN "error_400"
                           ELSE IF parse.request.kind = "multipart"
                           THEN "stream_request"
                           ELSE IF parse.request.body = "none"
                           THEN "handle_request"
                           ELSE "read_body"
    /\ UNCHANGED <<b_stream, b_taken, b_responses>>
    /\ UNCHANGED notStream

\* client.cxx:105-128 async_read of the body, and client.cxx:90-101 with
\* utils.hxx:48-84 stream_request: Content-Length bytes are consumed from
\* m_buffer, what was read beyond them stays in it
StreamReadBody ==
    /\ b_pc \in {"read_body", "stream_request"}
    /\ b_buffer # <<>>
    /\ b_buffer' = Tail(b_buffer)
    /\ b_pc' = "handle_request"
    /\ UNCHANGED <<b_stream, b_taken, b_request, b_headers, b_responses>>
    /\ UNCHANGED notStream

\* client.cxx:149-153 and 316-412  handle_request writes the response of
\* the request; the connection is kept alive
StreamHandleRequest ==
    /\ b_pc = "handle_request"
    /\ b_responses' = Append(b_responses,
                             [req |-> b_request.req, status |-> 200])
    /\ b_pc' = "top"
    /\ UNCHANGED <<b_stream, b_taken, b_buffer, b_request, b_headers>>
    /\ UNCHANGED notStream

\* client.cxx:244-311  the default error response; the loop goes on
StreamErrorResponse ==
    /\ b_pc \in {"error_400", "error_500"}
    /\ b_responses' = Append(b_responses,
                             [req |-> b_request.req,
                              status |-> IF b_pc = "error_400" THEN 400
                                         ELSE 500])
    /\ b_pc' = "top"
    /\ UNCHANGED <<b_stream, b_taken, b_buffer, b_request, b_headers>>
    /\ UNCHANGED notStream

NextStream ==
    \/ ClientSends
    \/ StreamLoopTop
    \/ SocketRead
    \/ StreamReadHeader
    \/ StreamReadBody
    \/ StreamHandleRequest
    \/ StreamErrorResponse

(***************************************************************************)
(* file_t: construction, move and destruction                              *)
(***************************************************************************)
FileObjects == 1..MaxFileObjects
TempPaths == 1..MaxTempPaths

\* boost::filesystem::path{}: the empty path
EmptyPath == 0

\* storage no file_t lives in
NoObject == [alive |-> FALSE, m_in_memory |-> TRUE, m_temp_path |-> EmptyPath]

\* file.hxx:25-27  file_t(name, content_type, data)
InMemoryFile == [alive |-> TRUE, m_in_memory |-> TRUE, m_temp_path |-> EmptyPath]

\* file.hxx:35-37  file_t(name, content_type, temp_path)
TempFile(temp_path) == [alive |-> TRUE, m_in_memory |-> FALSE, m_temp_path |-> temp_path]

\* file.hxx:43, 83  the test before boost::filesystem::remove
OwnsTempFile(file) == ~file.m_in_memory /\ file.m_temp_path # EmptyPath

\* the object a move leaves behind, had the move not cleared it
MovedFromFileKeepsPath(other) == other

\* file.hxx:72-73, 97-98  other.m_temp_path.clear(); other.m_in_memory = true
MovedFromFile(other) == [other EXCEPT !.m_temp_path = EmptyPath, !.m_in_memory = TRUE]

\* boost::filesystem::remove(m_temp_path, error_code) by an object that
\* owns a temp file; nothing otherwise
RemoveOwned(file) ==
    IF OwnsTempFile(file)
    THEN /\ f_disk' = f_disk \ {file.m_temp_path}
         /\ f_removes' = [f_removes EXCEPT ![file.m_temp_path] = @ + 1]
    ELSE UNCHANGED <<f_disk, f_removes>>

InitFile ==
    /\ f_objs = [o \in FileObjects |-> NoObject]
    /\ f_disk = {}
    /\ f_created = {}
    /\ f_removes = [p \in TempPaths |-> 0]

\* multipart.hxx:266-269, 487  the parser creates a temp file under a unique
\* path and builds the file_t that holds it
ConstructTempFile(o) ==
    /\ ~f_objs[o].alive
    /\ \E p \in TempPaths \ f_created :
          /\ f_objs' = [f_objs EXCEPT ![o] = TempFile(p)]
          /\ f_disk' = f_disk \cup {p}
          /\ f_created' = f_created \cup {p}
    /\ UNCHANGED f_removes
    /\ UNCHANGED notFile

\* multipart.hxx:483  a part kept in memory
ConstructInMemory(o) ==
    /\ ~f_objs[o].alive
    /\ f_objs' = [f_objs EXCEPT ![o] = InMemoryFile]
    /\ UNCHANGED <<f_disk, f_created, f_removes>>
    /\ UNCHANGED notFile

\* file.hxx:66-74  file_t(file_t&& other)
MoveConstruct(o, other) ==
    /\ o # other
    /\ ~f_objs[o].alive
    /\ f_objs[other].alive
    /\ f_objs' = [f_objs EXCEPT
                    ![o] = [alive |-> TRUE,
                            m_in_memory |-> f_objs[other].m_in_memory,
                            m_temp_path |-> f_objs[other].m_temp_path],
                    ![other] = MovedFromFile(f_objs[other])]
    /\ UNCHANGED <<f_disk, f_created, f_removes>>
    /\ UNCHANGED notFile

\* file.hxx:81-102  operator=(file_t&& other); o = other is f = std::move(f)
MoveAssign(o, other) ==
    /\ f_objs[o].alive
    /\ f_objs[other].alive
    /\ IF o # other
       THEN /\ RemoveOwned(f_objs[o])
            /\ f_objs' = [f_objs EXCEPT
                            ![o] = [alive |-> TRUE,
                                    m_in_memory |-> f_objs[other].m_in_memory,
                                    m_temp_path |-> f_objs[other].m_temp_path],
                            ![other] = MovedFromFile(f_objs[other])]
       ELSE UNCHANGED <<f_objs, f_disk, f_removes>>
    /\ UNCHANGED f_created
    /\ UNCHANGED notFile

\* file.hxx:42-48  ~file_t()
Destroy(o) ==
    /\ f_objs[o].alive
    /\ RemoveOwned(f_objs[o])
    /\ f_objs' = [f_objs EXCEPT ![o] = NoObject]
    /\ UNCHANGED f_created
    /\ UNCHANGED notFile

NextFile ==
    \/ \E o \in FileObjects : ConstructTempFile(o)
    \/ \E o \in FileObjects : ConstructInMemory(o)
    \/ \E o, other \in FileObjects : MoveConstruct(o, other)
    \/ \E o, other \in FileObjects : MoveAssign(o, other)
    \/ \E o \in FileObjects : Destroy(o)

(***************************************************************************)
(* Specifications                                                          *)
(***************************************************************************)
\* a c_cxxapi after its constructor, with no connection yet
InitConstructed ==
    /\ InitConn /\ InitChain /\ InitStopped /\ InitSync
    /\ InitTrie /\ InitMultipart /\ InitHeaders /\ InitAccept
    /\ InitPool /\ InitLog /\ InitStream /\ InitFile

\* a c_cxxapi after a successful start(), with a connection just accepted
InitServing ==
    /\ InitConn /\ InitChain /\ InitRunning /\ InitSync
    /\ InitTrie /\ InitMultipart /\ InitHeaders /\ InitAccept
    /\ InitPool /\ InitLog /\ InitStream /\ InitFile

\* one connection of a started server
SpecConn == InitServing /\ [][NextConn]_vars

\* registration, start, and worker threads running the composed chain
SpecChain == InitConstructed /\ [][NextChain]_vars

\* calls of insert and find on one trie
SpecTrie == InitConstructed /\ [][NextTrie]_vars

\* multipart bodies handed to the in-memory parser
SpecMultipart == InitConstructed /\ [][NextMultipart]_vars

\* uploads handed to the in-memory parser under small in-memory limits
SpecUpload == InitConstructed /\ [][NextUpload]_vars

\* the header fields of one request copied into its header map
SpecHeaders == InitConstructed /\ [][NextHeaders]_vars

\* start spawning the accept coroutines, and the sockets they accept
SpecAccept == InitConstructed /\ [][NextAccept]_vars

\* a connection pool and the coroutines that acquire and release
SpecPool == InitConstructed /\ [][NextPool]_vars

\* threads pushing to and draining one log buffer
SpecLog == InitConstructed /\ [][NextLog]_vars

\* one connection reading the byte stream of a client
SpecStream == InitConstructed /\ [][NextStream]_vars

\* file_t objects built, moved and destroyed by an application
SpecFile == InitConstructed /\ [][NextFile]_vars

\* start, stop and wait
SpecLife == InitConstructed /\ [][NextLife]_vars

\* the threads inside stop() and wait() keep running; a spurious wake-up,
\* a signal or a further call may never come
SpecLifeFair ==
    /\ SpecLife
    /\ \A c \in Stoppers : WF_vars(StopStep(c))
    /\ \A w \in Waiters : WF_vars(WaitStep(w))

(***************************************************************************)
(* Properties of the connection pipeline (SpecConn)                        *)
(***************************************************************************)
Last(q) == q[Len(q)]

SameResponse(a, b) == a.n = b.n /\ a.kind = b.kind

\* the last part of a response: a whole message, or the chunk terminator
FinalPart(w) == w.part \in {"msg", "term"}

\* response of wire[i] has been written to its end
CompletedOnWire(i) ==
    \E j \in i..Len(wire) : SameResponse(wire[j], wire[i]) /\ FinalPart(wire[j])

\* the Connection values the client sent with the current request
ConnectionValues(r) ==
    {r.headers[i].value :
        i \in {j \in 1..Len(r.headers) :
                 ToLowerStr(r.headers[j].name) = s_connection}}

\* no Connection header, or keep-alive in any letter case
AllowsKeepAlive(r) ==
    \A v \in ConnectionValues(r) : ToLowerStr(v) = s_keep_alive

\* C1: the read of the next request's header begins only when every
\* response that was started on this connection has been written completely
\* (a buffered message, or prelude, chunks and terminator).
C1_ReadAfterCompleteResponse ==
    pc = "read_header" => \A i \in 1..Len(wire) : CompletedOnWire(i)

\* a step that finishes writing the response produced by the chain
ResponseWritten ==
    /\ pc \in {"write_msg", "write_term"}
    /\ Len(wire') = Len(wire) + 1

\* C2: after a successfully written response the loop goes on to its next
\* iteration exactly when the request had no Connection header or one equal
\* to keep-alive in any letter case; otherwise every part of the response
\* carries Connection: close, m_close is set and the loop exits.
C2_KeepAliveDecidesLoop ==
    [][ResponseWritten =>
          /\ (pc' = "top") <=> AllowsKeepAlive(req)
          /\ AllowsKeepAlive(req) =>
                /\ ~m_close'
                /\ \A i \in 1..Len(wire') :
                      (wire'[i].n = iter /\ wire'[i].kind = "resp")
                          => wire'[i].conn = "keep-alive"
          /\ ~AllowsKeepAlive(req) =>
                /\ m_close'
                /\ pc' = "done"
                /\ \A i \in 1..Len(wire') :
                      (wire'[i].n = iter /\ wire'[i].kind = "resp")
                          => wire'[i].conn = "close"]_vars

\* C2 witness: a request with Connection: Keep-Alive (mixed case) was
\* answered and the loop is reading the next request.
C2_Witness ==
    /\ pc = "read_header"
    /\ iter = 1
    /\ ConnectionValues(req) = {s_Keep_Alive}
    /\ wire # <<>>
    /\ Last(wire).kind = "resp"
    /\ FinalPart(Last(wire))

\* C3: at most one response is in progress on the socket: the first part of
\* a response is written only when the response before it on the wire has
\* been written to its last part.
C3_OneResponseInProgress ==
    \A i \in 2..Len(wire) :
        ~SameResponse(wire[i], wire[i - 1]) => FinalPart(wire[i - 1])

\* C4: once an exception was raised inside handle_request and the socket is
\* still writable, handle_request ends with a 500 response on the wire for
\* this request, m_close set and the loop left.
C4_ExceptionSends500AndCloses ==
    (raised.kind # "none" /\ sock_ok /\ pc \in {"top", "read_header", "done"})
        => /\ m_close
           /\ pc = "done"
           /\ \E i \in 1..Len(wire) : wire[i].n = iter /\ wire[i].status = 500

\* 400 is the status of a client protocol error, after which the connection
\* can be used again; every other failure is fatal
Recoverable(status) == status = 400

\* C5: after the default error response of a failed iteration the loop goes
\* on only when the error is recoverable and the failed request permitted
\* keep-alive (and no close flag is set); otherwise the connection is closed.
C5_ErrorResponseThenClose ==
    [][(pc = "error_response" /\ Len(wire') = Len(wire) + 1) =>
          IF Recoverable(catch_tuple.status) /\ AllowsKeepAlive(req) /\ ~m_close
          THEN pc' = "top"
          ELSE pc' = "done"]_vars


(***************************************************************************)
(* Properties of the composed chain (SpecChain)                            *)
(***************************************************************************)
RECURSIVE Enters(_, _)
Enters(middlewares, upto) ==
    IF upto = 0 THEN <<>>
    ELSE Enters(middlewares, upto - 1)
            \o <<[ev |-> "enter", mw |-> middlewares[upto].id]>>

\* m1, ..., mn entered in registration order, then the router handler, then
\* the response back through mn, ..., m1
OnionTrace(middlewares) ==
    Enters(middlewares, Len(middlewares))
        \o <<[ev |-> "core", mw |-> 0]>>
        \o Leaves(middlewares, Len(middlewares))

\* C6: with middlewares m1..mn that all call next, every request enters
\* m1, m2, ..., mn, then the terminal router handler, and its response
\* travels back through mn, ..., m1.
C6_FirstRegisteredOutermost ==
    \A t \in Threads :
        (/\ w_pc[t] = "finished"
         /\ \A i \in 1..Len(m_middlewares) : m_middlewares[i].calls_next
         /\ \A k \in 1..Len(w_trace[t]) : w_trace[t][k].ev # "find_throws")
        => w_trace[t] = OnionTrace(m_middlewares)

\* a worker thread takes a step of serving a request
ServingStep == w_pc' # w_pc

\* C7: no step of serving a request modifies the composed chain, the route
\* trie, the middleware list or the configuration.
C7_ServingWritesNoSharedState ==
    [][ServingStep =>
          UNCHANGED <<next_chain, m_route_trie, m_middlewares, m_cfg>>]_vars


(***************************************************************************)
(* Properties of start, stop and wait (SpecLife, SpecLifeFair)             *)
(***************************************************************************)
ShutdownActions ==
    {"store", "notify", "acceptor_cancel", "acceptor_close", "io_stop",
     "pool_join", "release"}

\* C8: however the stop() calls on a started server interleave, each
\* shutdown action is performed at most once, and exactly once as soon as a
\* call has run to its end; all other calls do nothing.
C8_StopPerformedOnce ==
    did.start = 1 =>
        /\ \A a \in ShutdownActions : did[a] <= 1
        /\ (did.release >= 1 /\ \A c \in Stoppers : st_pc[c] = "idle")
              => \A a \in ShutdownActions : did[a] = 1

InWait(w) == wait_pc[w] \in {"lock", "predicate", "block", "blocked", "relock"}

WaitReturns(w) == wait_pc[w] # "returned" /\ wait_pc'[w] = "returned"

\* C9: on a started server wait() returns only when stop() has stored false
\* in the running flag, and once that store has happened every thread
\* inside wait() - blocked before the store or arriving after it -
\* eventually returns.
C9_WaitReturnsIffStopped ==
    /\ [][\A w \in Waiters :
             (WaitReturns(w) /\ did.start = 1)
                 => (~api_running /\ did.store >= 1)]_vars
    /\ \A w \in Waiters :
          (InWait(w) /\ did.start = 1 /\ did.store >= 1)
              ~> (wait_pc[w] = "returned")

\* C9 witness: after stop() one waiter has returned and another one, woken
\* from the condition variable by notify_all, is about to.
C9_Witness ==
    /\ did.start = 1
    /\ did.notify = 1
    /\ ~api_running
    /\ \E w1, w2 \in Waiters :
          wait_pc[w1] = "returned" /\ wait_pc[w2] = "relock"

\* C10: stop() notifies the condition variable only after the acceptor is
\* closed and the scheduler stopped, and at the moment wait() returns on a
\* started server the listening socket is closed and no worker thread runs.
C10_WaitReturnsAfterShutdown ==
    [][/\ (did'.notify > did.notify /\ did.start = 1)
             => (~acceptor_open /\ io_stopped)
       /\ \A w \in Waiters :
             (WaitReturns(w) /\ did.start = 1)
                 => (~acceptor_open /\ pool # "running")]_vars


(***************************************************************************)
(* Properties of shutdown seen from a connection (SpecConn)                *)
(***************************************************************************)
\* the coroutine is resumed from async_read_header or async_read
ComesBackFromRead == pc \in {"read_header", "read_body"} /\ pc' # pc

\* C11: once the running flag is false, a coroutine coming back from a
\* header read or a body read leaves the loop instead of going on towards
\* the middleware chain with that request.
C11_NoChainAfterStop ==
    [][(ComesBackFromRead /\ ~srv_running) => pc' = "done"]_vars


(***************************************************************************)
(* Properties of the trie (SpecTrie)                                       *)
(***************************************************************************)
\* the segments of a registered pattern or of a request path
SegmentsOf(path) == split_path(NormalizePath(path))

DynamicPositions(segments) ==
    {i \in DOMAIN segments : is_dynamic_segment(segments[i])}

\* the pattern matches the path segment by segment: literal segments are
\* equal, a dynamic segment stands against any non-empty segment
Matches(pattern_segments, path_segments) ==
    /\ Len(pattern_segments) = Len(path_segments)
    /\ \A i \in DOMAIN pattern_segments :
          /\ path_segments[i] # <<>>
          /\ \/ is_dynamic_segment(pattern_segments[i])
             \/ pattern_segments[i] = path_segments[i]

\* the handlers the trie holds
Registered(trie) ==
    UNION {{trie[node].m_values[method] :
               method \in DOMAIN trie[node].m_values} : node \in DOMAIN trie}

\* find has just been called for the method of handler h with a path that
\* the pattern of h matches
FoundFor(h) ==
    /\ t_last.op = "find"
    /\ t_last.method = h.method
    /\ Matches(SegmentsOf(h.pattern), SegmentsOf(t_last.path))

\* exactly one insert has been called, on the empty trie, and it returned true
OneInsertIntoEmpty == t_calls = 1 /\ Registered(m_route_trie) # {}

FirstPosition(segments, name) ==
    CHOOSE i \in DynamicPositions(segments) :
        /\ extract_param_name(segments[i]) = name
        /\ \A j \in DynamicPositions(segments) :
              extract_param_name(segments[j]) = name => i <= j

C13_DynamicMatchesAnySegment ==
    \A h \in Registered(m_route_trie) :
        FoundFor(h) => t_last.found.result = "found"

\* the node the first k segments of a pattern lead to
NodeOf(pattern_segments, k) ==
    [i \in 1..k |-> IF is_dynamic_segment(pattern_segments[i]) THEN DynEdge
                    ELSE pattern_segments[i]]

\* at no dynamic position of the pattern does the node reached have a
\* literal child named like the segment of the path
Unshadowed(trie, pattern_segments, path_segments) ==
    \A i \in DynamicPositions(pattern_segments) :
        Append(NodeOf(pattern_segments, i - 1), path_segments[i])
            \notin DOMAIN trie

\* C13 (amended): if a pattern registered for the method matches the path
\* segment by segment and no node at one of its dynamic positions has a
\* literal child equal to the segment of the path, find returns the handler
\* of that pattern.
C13_UnshadowedPatternIsFound ==
    \A h \in Registered(m_route_trie) :
        (/\ FoundFor(h)
         /\ Unshadowed(m_route_trie, SegmentsOf(h.pattern),
                       SegmentsOf(t_last.path)))
            => t_last.found.result = "found" /\ t_last.found.handler = h

\* C13 witness: with a literal child and a dynamic child at the root, find
\* has walked through the dynamic child and returned a handler.
C13_Witness ==
    /\ <<DynEdge>> \in DOMAIN m_route_trie
    /\ <<<<"a">>>> \in DOMAIN m_route_trie
    /\ t_last.op = "find"
    /\ t_last.found.result = "found"
    /\ t_last.path = <<"/", "b", "/", "a">>
    /\ DOMAIN t_last.found.params # {}

\* the names of the dynamic segments of a pattern differ from one another
DistinctNames(segments) ==
    \A i, j \in DynamicPositions(segments) :
        segments[i] = segments[j] => i = j

\* the walk of find over path_segments stays on the nodes of the pattern up
\* to position i and takes the dynamic child there
ThroughPosition(trie, pattern_segments, path_segments, i) ==
    /\ i \in DynamicPositions(pattern_segments)
    /\ i <= Len(path_segments)
    /\ \A j \in 1..i :
          IF is_dynamic_segment(pattern_segments[j])
          THEN Append(NodeOf(pattern_segments, j - 1), path_segments[j])
                  \notin DOMAIN trie
          ELSE pattern_segments[j] = path_segments[j]

\* insert has just returned true
InsertReturned == t_last.op = "insert" /\ ~t_last.threw

\* C14: an insertion that puts a dynamic segment where an earlier one put a
\* dynamic segment of another name is not rejected, and a find that follows
\* it binds the segment at that position under the name the most recent
\* insertion gave.
C14_MostRecentNameIsUsed ==
    [][/\ (t_last'.op = "insert" /\ t_last'.threw)
            => LET walk == InsertWalk(m_route_trie, <<>>,
                                      SegmentsOf(t_last'.path))
               IN  \/ walk.threw
                   \/ t_last'.method
                         \in DOMAIN m_route_trie[walk.node].m_values
       /\ (InsertReturned /\ t_last'.op = "find"
              /\ t_last'.found.result = "found"
              /\ DistinctNames(SegmentsOf(t_last.path)))
            => LET pattern_segments == SegmentsOf(t_last.path)
                   path_segments == SegmentsOf(t_last'.path)
               IN  \A i \in DOMAIN pattern_segments :
                      ThroughPosition(m_route_trie, pattern_segments,
                                      path_segments, i)
                        => LET name == extract_param_name(pattern_segments[i])
                           IN  /\ name \in DOMAIN t_last'.found.params
                               /\ t_last'.found.params[name]
                                     = path_segments[i]]_vars

\* a handler is registered for the method and, after normalization, the
\* pattern of the insert call that has just been made
AlreadyRegistered(h) ==
    /\ h \in Registered(m_route_trie)
    /\ t_last'.op = "insert"
    /\ t_last'.method = h.method
    /\ NormalizePath(t_last'.path) = NormalizePath(h.pattern)

HasDoubleSlash(pattern) ==
    \E i \in 1..(Len(pattern) - 1) : pattern[i] = "/" /\ pattern[i + 1] = "/"

RECURSIVE Pieces(_, _)
\* the pieces of text between the '/' of a pattern, from position start on
Pieces(pattern, start) ==
    IF start > Len(pattern) THEN {}
    ELSE LET end == FindSlash(pattern, start)
         IN  IF end = 0 THEN {SubSeq(pattern, start, Len(pattern))}
             ELSE {SubSeq(pattern, start, end - 1)}
                     \cup Pieces(pattern, end + 1)

\* exactly one of a leading '{' and a trailing '}'
OneSidedBrace(piece) ==
    piece # <<>> /\ ((piece[1] = "{") # (piece[Len(piece)] = "}"))

\* a pattern that insert is to reject
Rejectable(pattern) ==
    \/ HasDoubleSlash(pattern)
    \/ \E piece \in Pieces(pattern, 1) :
          OneSidedBrace(piece) \/ piece = <<"{", "}">>

\* C16: insert throws, and registers no handler, for every pattern with an
\* empty segment (// anywhere, the end of the pattern included), a segment
\* with exactly one of a leading { and a trailing }, or the segment {}.
C16_MalformedPatternRejected ==
    [][(t_last'.op = "insert" /\ Rejectable(t_last'.path))
          => /\ t_last'.threw
             /\ Registered(m_route_trie') = Registered(m_route_trie)]_vars

\* the request of worker t resolves to no registered route: no handler of its
\* method is registered under a pattern that matches its path
ResolvesToNoRoute(t) ==
    \A h \in Registered(m_route_trie) :
       ~(/\ h.method = "GET"
         /\ Matches(SegmentsOf(h.pattern), SegmentsOf(w_target[t])))

\* worker t leaves the router
LeavesRouter(t) == w_pc[t] = "core" /\ w_pc'[t] = "return"

\* C17: for every request whose method and path resolve to no registered
\* route, a path with an empty segment such as /u//a included, the router
\* answers 404 Not found and raises nothing.
C17_NoRouteIsNotFound ==
    [][\A t \in Threads :
          (LeavesRouter(t) /\ ResolvesToNoRoute(t))
             => w_response'[t] = 404 /\ ~w_thrown'[t]]_vars

\* C18: once start() has set m_running, no step changes the route trie; a
\* registration attempted while the server runs inserts nothing.
C18_TrieImmutableAfterStart ==
    [][api_running => m_route_trie' = m_route_trie]_vars

\* a call of add_middleware has returned or thrown in this step
AddMiddlewareCalled == mw_call' # mw_call \/ m_middlewares' # m_middlewares

\* the middlewares worker t has entered so far, in the order it entered them
Entered(t) == SelectSeq(w_trace[t], LAMBDA e : e.ev = "enter")

\* the composed chain has one wrapper per registered middleware, and every
\* request enters the middlewares in registration order
ChainIsRegistrationOrder ==
    /\ Len(next_chain) = Len(m_middlewares)
    /\ \A t \in Threads :
          /\ Len(Entered(t)) <= Len(m_middlewares)
          /\ \A k \in DOMAIN Entered(t) : Entered(t)[k].mw = m_middlewares[k].id

Carrying(parts) ==
    {k \in DOMAIN parts : parts[k].name # <<>> /\ parts[k].filename # <<>>}

\* the first part that carries the name together with a filename
FirstCarrying(parts, name) ==
    CHOOSE k \in Carrying(parts) :
       /\ parts[k].name = name
       /\ \A j \in Carrying(parts) : parts[j].name = name => k <= j

\* C20: for every body that ends with the closing delimiter, parse_async
\* returns one file per distinct name among the parts that carry both name
\* and filename, the file of the first part with that name, whatever bytes
\* the contents hold (CR LF, --<boundary> in the middle of a line).
C20_OneFilePerCarriedName ==
    (mp_pc = "parsed" /\ mp_closed) =>
       /\ DOMAIN mp_files = {mp_parts[k].name : k \in Carrying(mp_parts)}
       /\ \A name \in DOMAIN mp_files :
             mp_files[name].m_name =
                mp_parts[FirstCarrying(mp_parts, name)].filename

\* C21: the bytes of every file that parse_async returns are the bytes the
\* client put between the blank line after the headers of the part and the
\* CR LF before the next delimiter line, also when they hold a CR LF.
C21_FileHoldsWholePayload ==
    mp_pc = "parsed" =>
       \A name \in DOMAIN mp_files :
          \E k \in DOMAIN mp_parts :
             /\ mp_parts[k].filename = mp_files[name].m_name
             /\ mp_files[name].m_data = mp_parts[k].content

\* C23: for every body without the closing delimiter parse_async returns an
\* empty file map, whatever parts it has collected.
C23_UnclosedBodyGivesNoFiles ==
    (mp_pc = "parsed" /\ ~mp_closed) => mp_files = NoFiles

RECURSIVE SizeOfAll(_, _)
\* the sum of the sizes of the files of ret stored under the names in S
SizeOfAll(ret, S) ==
    IF S = {} THEN 0
    ELSE LET n == CHOOSE n \in S : TRUE
         IN  Len(ret[n].m_data) + SizeOfAll(ret, S \ {n})

\* the files of the result that are kept in memory
InMemory(ret) == {n \in DOMAIN ret : ret[n].m_in_memory}

\* the parts before part k whose file is in the result and kept in memory
PlacedBefore(parts, ret, k) ==
    {n \in InMemory(ret) : FirstCarrying(parts, n) < k}

WellFormedNamedParts ==
    /\ mp_closed
    /\ Len(mp_parts) >= 2
    /\ \A k \in DOMAIN mp_parts :
          /\ mp_parts[k].name # <<>>
          /\ StrFind(mp_parts[k].content, s_crlf, 1) = 0

\* C22: given a file with a well-formed body of k >= 2 parts that each carry
\* a name, parse_from_file_async records the k parts (one per name, first
\* wins): after a non-closing delimiter it reads the headers of the next
\* part and obtains its name.
C22_FileParserRecordsEveryPart ==
    (mp_pc = "parsed_from_file" /\ WellFormedNamedParts) =>
       /\ mp_threw = ""
       /\ Cardinality(DOMAIN mp_files)
             = Cardinality({mp_parts[k].name : k \in DOMAIN mp_parts})

(***************************************************************************)
(* Further properties of the connection pipeline (SpecConn)                *)
(***************************************************************************)
\* the positions of start() from which the request is handed to the chain
\* and its response written
Handling ==
    {"dispatch", "chain", "write_header", "write_msg", "callback",
     "write_term", "hr_error"}

\* C25: a request whose declared body size is above max_request_size is
\* answered 400, multipart or not, and is never handed to its handler.
C25_OversizeAnswered400 ==
    req.clen = "big" =>
       /\ pc \notin Handling
       /\ catch_tuple.flag => catch_tuple.status = 400

\* the bytes are one chunk frame: <hex-size> CR LF <bytes> CR LF
IsChunkFrame(bytes) ==
    \E str \in ChunkPayloads :
       bytes = HexUpper(Len(str)) \o s_crlf \o str \o s_crlf

\* C26: of a streaming response the socket carries the header, then the
\* frames of the callback, each <hex-size> CR LF <bytes> CR LF, then the five
\* bytes 0 CR LF CR LF once, and nothing else before the next response.
C26_StreamIsHeaderFramesTerminator ==
    \A i \in DOMAIN wire :
       /\ wire[i].part = "chunk" =>
             /\ IsChunkFrame(wire[i].bytes)
             /\ i > 1
             /\ wire[i - 1].n = wire[i].n
             /\ wire[i - 1].part \in {"head", "chunk"}
       /\ wire[i].part = "term" =>
             /\ wire[i].bytes = FiveByteTerminator
             /\ i > 1
             /\ wire[i - 1].n = wire[i].n
             /\ wire[i - 1].part \in {"head", "chunk"}
             /\ \A j \in DOMAIN wire : j > i => wire[j].n > wire[i].n

\* the handling of every request received so far has ended
BetweenRequests == pc \in {"top", "read_header", "done"}

\* C27: when the handling of a request has ended, the upload-XXXX-XXXX file
\* created for it is gone, whichever path the request took.
C27_UploadFileRemoved ==
    BetweenRequests => tmp_files = {}

\* the places of the received fields that carry the name of field i
Occurrences(i) ==
    {j \in DOMAIN h_fields : ci_same(h_fields[j].name, h_fields[i].name)}

\* C28: when a request repeats a header name (compared without case), the
\* header map holds one entry for the name, with the value of the last
\* occurrence.
C28_RepeatedHeaderLastWins ==
    h_pc = "copied" =>
       \A i \in DOMAIN h_fields :
          Cardinality(Occurrences(i)) > 1 =>
             LET last == CHOOSE j \in Occurrences(i) :
                            \A k \in Occurrences(i) : k <= j
                 entries == {e \in DOMAIN h_headers :
                                ci_same(h_headers[e].name, h_fields[i].name)}
             IN  /\ Cardinality(entries) = 1
                 /\ \A e \in entries :
                       h_headers[e].value = h_fields[last].value

\* the number of accept coroutines the specification gives for w workers
AcceptorsFor(w) ==
    IF w <= 4 THEN 1
    ELSE IF w <= 16 THEN Max(2, w \div 6)
    ELSE Max(3, w \div 8)

\* C29: for w >= 1 workers start spawns 1 accept coroutine if w <= 4,
\* max(2, w/6) if 5 <= w <= 16 and max(3, w/8) if w > 16; at least one for
\* every w.
C29_AcceptorsPerWorkers ==
    (a_pc = "started" /\ a_workers >= 1) =>
       /\ a_acceptors = AcceptorsFor(a_workers)
       /\ a_acceptors >= 1

\* C30: when setting one of the socket options fails on an accepted socket,
\* the socket is closed and no client coroutine is spawned for it, whichever
\* option failed and whatever happened to the options set after it.
C30_FailedOptionClosesSocket ==
    \A i \in DOMAIN a_sockets :
       a_sockets[i].failed # {} =>
          /\ a_sockets[i].closed
          /\ ~a_sockets[i].client

\* max_connections handles are in the pool and all of them are in use
AllInUseAtMax ==
    /\ Len(p_pool) >= MaxConnections
    /\ \A i \in DOMAIN p_pool : p_pool[i].m_in_use

\* C31: the pool never holds more than max_connections connections, and
\* while max_connections connections are all in use an acquire yields none.
C31_PoolNeverAboveMax ==
    /\ [](Len(p_pool) <= MaxConnections)
    /\ [][\A c \in Acquirers :
            (p_handle[c] = 0 /\ p_handle'[c] # 0) => ~AllInUseAtMax]_vars

\* the messages handed out with their text, in the order of the returns
HandedIntact == SelectSeq(l_handed, LAMBDA m : m.intact)

\* C32: the log buffer never holds more than capacity messages, and what
\* pop and get_batch hand out is oldest first, each message at most once.
C32_BoundedFifoOnce ==
    /\ Len(l_buffer) <= LogCapacity
    /\ \A i, j \in DOMAIN HandedIntact :
          i < j => HandedIntact[i].id < HandedIntact[j].id

\* C33: with middlewares registered, every middleware of every request, the
\* first as well as the later ones, is handed a callable next.
C33_NextIsCallableOnEveryRequest ==
    \A t \in Threads :
       (w_pc[t] = "handle" /\ m_middlewares # <<>>) => w_next[t]

\* C34: every header the connection loop parses begins at a request
\* boundary of the client's byte stream; the unread body of a request that
\* was answered with an error is never parsed as a request.
C34_HeadersBeginAtRequestBoundary ==
    \A i \in DOMAIN b_headers : b_headers[i].part = "h1"

\* the requests the client sent, by their first piece
SentRequests == {i \in DOMAIN b_stream : b_stream[i].part = "h1"}

\* every request of the stream is complete and acceptable
AllAcceptable ==
    \A i \in DOMAIN b_stream : b_stream[i].kind \in {"plain", "multipart"}

\* C35: on a connection kept alive every complete request gets exactly one
\* response, in arrival order, wherever the reads of the socket end.  Stated
\* for the end of the loop, when the client's stream is read to its end.
C35_EveryRequestAnsweredOnceInOrder ==
    (b_pc = "done" /\ AllAcceptable) =>
       /\ Len(b_responses) = Cardinality(SentRequests)
       /\ \A k \in DOMAIN b_responses :
             /\ b_responses[k].req = k
             /\ b_responses[k].status = 200

\* C36: for the same bytes, boundary and thresholds the in-memory parser
\* and the temp-file parser expose the same field names with the same
\* display name, content type and size; both fail or both succeed.
C36_ParsersAgree ==
    mp_pc = "parsed" =>
       LET from_file == parse_from_file_async(mp_body, Boundary, mp_limits)
       IN  /\ from_file.threw = ""
           /\ DOMAIN from_file.ret = DOMAIN mp_files
           /\ \A name \in DOMAIN mp_files \cap DOMAIN from_file.ret :
                 /\ from_file.ret[name].m_name = mp_files[name].m_name
                 /\ from_file.ret[name].m_content_type
                       = mp_files[name].m_content_type
                 /\ Len(from_file.ret[name].m_data)
                       = Len(mp_files[name].m_data)

\* the sizes of the reads the file is cut into, from one byte up
ChunkSizesDisk == 1..MaxChunkSizeDisk

\* C37: the result of the temp-file parser is the same for every
\* chunk-size-disk >= 1, also when a delimiter straddles two reads.
C37_ResultIndependentOfChunkSize ==
    mp_pc = "parsed_from_file" =>
       \A chunk \in ChunkSizesDisk :
          LET limits == [mp_limits EXCEPT !.chunk_size_disk = chunk]
              parsed == parse_from_file_async(mp_body, Boundary, limits)
          IN  /\ parsed.threw = mp_threw
              /\ parsed.ret = mp_files

\* C38: a stop() started by the signal handler, which runs on a worker
\* thread of the pool, runs to its end - the join of the pool from inside
\* the pool returns - and the server object is then released.
C38_SignalStopCompletes ==
    (st_pc[SignalThread] = "pool")
        ~> (st_pc[SignalThread] = "idle" /\ m_server = "null")

\* C39: after a start() that failed the running flag is false: no thread
\* stays blocked in wait() and add_middleware is accepted.
C39_FailedStartLeavesNotRunning ==
    did.start_failed = 1 =>
       /\ ~api_running
       /\ \A w \in Waiters : wait_pc[w] \notin {"block", "blocked"}
       /\ \A mw \in Middlewares(Len(m_middlewares) + 1) :
             ~add_middleware(m_middlewares, api_running, mw).threw

\* the live objects that own temp file p
Owners(p) ==
    {o \in FileObjects :
        f_objs[o].alive /\ OwnsTempFile(f_objs[o]) /\ f_objs[o].m_temp_path = p}

\* C40: over all move-constructions, move-assignments (self-assignment
\* included) and destructions, each temp file has at most one live owner,
\* is on disk as long as its owner lives, and is removed exactly once when
\* its owner is destroyed or overwritten.
C40_TempFileOwnedOnceRemovedOnce ==
    \A p \in f_created :
       /\ Cardinality(Owners(p)) <= 1
       /\ Owners(p) # {} => (p \in f_disk /\ f_removes[p] = 0)
       /\ Owners(p) = {} => (p \notin f_disk /\ f_removes[p] = 1)

\* C40 witness: a temp file went from one object to another by a move, its
\* first holder is still alive and owns nothing, and a second temp file
\* was removed when its owner was overwritten or destroyed.
C40_Witness ==
    \E p, q \in f_created :
       /\ p # q
       /\ Owners(p) # {}
       /\ \E o \in FileObjects :
             /\ f_objs[o].alive
             /\ o \notin Owners(p)
             /\ f_objs[o].m_in_memory
       /\ f_removes[q] = 1
       /\ q \notin f_disk

====
